---------------------------- MODULE Spec2Model ----------------------------
(***************************************************************************)
(* A model of talon-sys (src/talon-sys/src/lib.rs): the binary TLV codec   *)
(* of Value, the row-set decoder, the command envelope, and the            *)
(* buffer and handle discipline of the Talon wrapper around the C          *)
(* boundary.                                                               *)
(*                                                                         *)
(* Numbers.  The checker's integers are 32 bits wide, the program's are    *)
(* 64.  A 64-bit integer is therefore kept in three limbs (I64), an IEEE   *)
(* double in its sign, exponent and three mantissa limbs (F64); the        *)
(* conversions to and from little-endian bytes are computed                *)
(* arithmetically on the limbs and are total.  usize values are plain      *)
(* integers: every target build.rs accepts is a 64-bit one               *)
(* (src/talon-sys/build.rs:28-36), so the decoders' additions never wrap;  *)
(* a decoded u32 length of 2^27 or more is clipped to 2^27 (U32Clip),      *)
(* which no comparison against a buffer of the model can tell apart.       *)
(*                                                                         *)
(* A String is its UTF-8 bytes, as in Rust: as_bytes is the bytes, and     *)
(* from_utf8 is a validity check on them.                                  *)
(***************************************************************************)
EXTENDS Integers, Sequences, FiniteSets, TLC

\* ------------------------------------------------------------------ bytes

\* data[a..b] of Rust: the bytes at 0-based indexes a .. b-1.
Slice(data, a, b) == SubSeq(data, a + 1, b)

\* data[i] of Rust, 0-based.
At(data, i) == data[i + 1]

\* Whether the slice data[a..b] is in range (Rust panics when it is not).
InRange(data, a, b) == a <= b /\ b <= Len(data)

RECURSIVE Concat(_)
Concat(ss) == IF ss = <<>> THEN <<>> ELSE Head(ss) \o Concat(Tail(ss))

\* (n as u32).to_le_bytes(), for a length n of the model.
U32ToLe(n) ==
    << n % 256, (n \div 256) % 256, (n \div 65536) % 256, (n \div 16777216) % 256 >>

\* The largest u32 value the model computes exactly; see the module comment.
U32Clip == 134217728

\* u32::from_le_bytes(b) as usize.
U32FromLe(b) ==
    IF b[4] >= 8 THEN U32Clip
    ELSE b[1] + 256 * b[2] + 65536 * b[3] + 16777216 * b[4]

\* A 64-bit signed integer hi * 2^48 + mid * 2^24 + lo.
I64(n) ==
    [lo |-> n % 16777216,
     mid |-> (n \div 16777216) % 16777216,
     hi |-> (n \div 16777216) \div 16777216]

\* i64::to_le_bytes.
I64ToLe(x) ==
    << x.lo % 256, (x.lo \div 256) % 256, x.lo \div 65536,
       x.mid % 256, (x.mid \div 256) % 256, x.mid \div 65536,
       x.hi % 256, (x.hi \div 256) % 256 >>

\* i64::from_le_bytes.
I64FromLe(b) ==
    [lo |-> b[1] + 256 * b[2] + 65536 * b[3],
     mid |-> b[4] + 256 * b[5] + 65536 * b[6],
     hi |-> b[7] + 256 * b[8] - (IF b[8] >= 128 THEN 65536 ELSE 0)]

\* An IEEE 754 double: sign s, biased exponent e (11 bits), mantissa
\* m2 * 2^32 + m1 * 2^16 + m0 (20 + 16 + 16 bits).
F64(s, e, m2, m1, m0) == [s |-> s, e |-> e, m2 |-> m2, m1 |-> m1, m0 |-> m0]

\* f64::to_le_bytes.
F64ToLe(f) ==
    << f.m0 % 256, f.m0 \div 256, f.m1 % 256, f.m1 \div 256,
       f.m2 % 256, (f.m2 \div 256) % 256,
       (f.m2 \div 65536) + 16 * (f.e % 16),
       (f.e \div 16) + 128 * f.s >>

\* f64::from_le_bytes.
F64FromLe(b) ==
    [s |-> b[8] \div 128,
     e |-> 16 * (b[8] % 128) + (b[7] \div 16),
     m2 |-> 65536 * (b[7] % 16) + 256 * b[6] + b[5],
     m1 |-> 256 * b[4] + b[3],
     m0 |-> 256 * b[2] + b[1]]

F64IsNaN(f) == f.e = 2047 /\ (f.m2 # 0 \/ f.m1 # 0 \/ f.m0 # 0)

F64IsZero(f) == f.e = 0 /\ f.m2 = 0 /\ f.m1 = 0 /\ f.m0 = 0

\* f64's ==: a NaN equals nothing, the two zeros are equal.
F64Eq(a, b) ==
    /\ ~F64IsNaN(a)
    /\ ~F64IsNaN(b)
    /\ (a = b \/ (F64IsZero(a) /\ F64IsZero(b)))

\* An IEEE 754 single: sign s, biased exponent e (8 bits), mantissa m (23 bits).
F32(s, e, m) == [s |-> s, e |-> e, m |-> m]

\* f32::to_le_bytes.
F32ToLe(f) ==
    << f.m % 256, (f.m \div 256) % 256,
       (f.m \div 65536) + 128 * (f.e % 2),
       (f.e \div 2) + 128 * f.s >>

\* f32::from_le_bytes.
F32FromLe(b) ==
    [s |-> b[4] \div 128,
     e |-> 2 * (b[4] % 128) + (b[3] \div 128),
     m |-> 65536 * (b[3] % 128) + 256 * b[2] + b[1]]

F32IsNaN(f) == f.e = 255 /\ f.m # 0

\* f32's ==.
F32Eq(a, b) ==
    /\ ~F32IsNaN(a)
    /\ ~F32IsNaN(b)
    /\ (a = b \/ (a.e = 0 /\ a.m = 0 /\ b.e = 0 /\ b.m = 0))

\* Whether b is a UTF-8 continuation byte within lo..hi.
Cont(b, i, lo, hi) == i <= Len(b) /\ b[i] >= lo /\ b[i] <= hi

\* The length of the well-formed UTF-8 character that starts at index i
\* (1-based) of b, 0 when none starts there.
Utf8Len(b, i) ==
    LET c == b[i] IN
    IF c < 128 THEN 1
    ELSE IF c >= 194 /\ c <= 223
         THEN IF Cont(b, i + 1, 128, 191) THEN 2 ELSE 0
    ELSE IF c >= 224 /\ c <= 239
         THEN IF /\ Cont(b, i + 1,
                         IF c = 224 THEN 160 ELSE 128,
                         IF c = 237 THEN 159 ELSE 191)
                 /\ Cont(b, i + 2, 128, 191)
              THEN 3 ELSE 0
    ELSE IF c >= 240 /\ c <= 244
         THEN IF /\ Cont(b, i + 1,
                         IF c = 240 THEN 144 ELSE 128,
                         IF c = 244 THEN 143 ELSE 191)
                 /\ Cont(b, i + 2, 128, 191)
                 /\ Cont(b, i + 3, 128, 191)
              THEN 4 ELSE 0
    ELSE 0

\* std::str::from_utf8(b).is_ok(): every byte starts a well-formed character
\* or is a continuation byte of the one that starts up to three bytes before.
Utf8Valid(b) ==
    \A i \in 1..Len(b) :
        \/ Utf8Len(b, i) > 0
        \/ /\ Cont(b, i, 128, 191)
           /\ \E k \in 1..3 : i - k >= 1 /\ Utf8Len(b, i - k) > k


\* ------------------------------------------------------------------- JSON
\* serde_json::Value, for the documents the model draws: null, booleans,
\* integers, strings, arrays, and objects as key-sorted lists of pairs (the
\* default Map is a BTreeMap).  Fractions and exponents are left out, and
\* the parser leaves out \u escapes: no text the model parses holds them.

JNull == [t |-> "null"]
JBool(b) == [t |-> "bool", b |-> b]
JNum(n) == [t |-> "num", n |-> n]
JStr(s) == [t |-> "str", s |-> s]
JArr(a) == [t |-> "arr", a |-> a]
JObj(o) == [t |-> "obj", o |-> o]

RECURSIVE Digits(_)
Digits(n) == IF n < 10 THEN << 48 + n >> ELSE Digits(n \div 10) \o << 48 + (n % 10) >>

\* The escape letter serde_json writes for byte c inside a string, 0 for none.
EscapeOf(c) ==
    CASE c = 34 -> 34
      [] c = 92 -> 92
      [] c = 8 -> 98
      [] c = 9 -> 116
      [] c = 10 -> 110
      [] c = 12 -> 102
      [] c = 13 -> 114
      [] OTHER -> 0

\* A hexadecimal digit, lower case.
HexDigit(d) == IF d < 10 THEN 48 + d ELSE 87 + d

\* One byte of a string as serde_json writes it: a short escape, \u00XX for
\* the other control characters, or the byte itself.
EscapeByte(c) ==
    IF EscapeOf(c) # 0 THEN << 92, EscapeOf(c) >>
    ELSE IF c < 32 THEN << 92, 117, 48, 48, HexDigit(c \div 16), HexDigit(c % 16) >>
    ELSE << c >>

RECURSIVE JsonEscape(_)
JsonEscape(s) ==
    IF s = <<>> THEN <<>> ELSE EscapeByte(Head(s)) \o JsonEscape(Tail(s))

JsonQuote(s) == << 34 >> \o JsonEscape(s) \o << 34 >>

\* serde_json::Value::to_string: the compact text.
RECURSIVE JsonToString(_), JsonJoin(_, _)
JsonToString(j) ==
    CASE j.t = "null" -> << 110, 117, 108, 108 >>
      [] j.t = "bool" -> IF j.b THEN << 116, 114, 117, 101 >>
                         ELSE << 102, 97, 108, 115, 101 >>
      [] j.t = "num" -> IF j.n < 0 THEN << 45 >> \o Digits(0 - j.n) ELSE Digits(j.n)
      [] j.t = "str" -> JsonQuote(j.s)
      [] j.t = "arr" -> << 91 >> \o JsonJoin(j.a, FALSE) \o << 93 >>
      [] j.t = "obj" -> << 123 >> \o JsonJoin(j.o, TRUE) \o << 125 >>

\* The comma-separated items of an array, or members of an object.
JsonJoin(xs, members) ==
    IF xs = <<>> THEN <<>>
    ELSE LET x == Head(xs)
             one == IF members THEN JsonQuote(x[1]) \o << 58 >> \o JsonToString(x[2])
                    ELSE JsonToString(x)
         IN  IF Len(xs) = 1 THEN one ELSE one \o << 44 >> \o JsonJoin(Tail(xs), members)

\* Lexicographic order of byte strings (the order of BTreeMap<String, _>).
RECURSIVE BytesLess(_, _)
BytesLess(a, b) ==
    IF b = <<>> THEN FALSE
    ELSE IF a = <<>> THEN TRUE
    ELSE IF Head(a) # Head(b) THEN Head(a) < Head(b)
    ELSE BytesLess(Tail(a), Tail(b))

\* Map::insert: the pair put at its place, replacing an equal key.
RECURSIVE MapInsert(_, _, _)
MapInsert(o, k, v) ==
    IF o = <<>> THEN << <<k, v>> >>
    ELSE IF Head(o)[1] = k THEN << <<k, v>> >> \o Tail(o)
    ELSE IF BytesLess(k, Head(o)[1]) THEN << <<k, v>> >> \o o
    ELSE << Head(o) >> \o MapInsert(Tail(o), k, v)

\* Map::get.
RECURSIVE MapGet(_, _)
MapGet(o, k) ==
    IF o = <<>> THEN [some |-> FALSE]
    ELSE IF Head(o)[1] = k THEN [some |-> TRUE, v |-> Head(o)[2]]
    ELSE MapGet(Tail(o), k)

IsWs(c) == c \in {9, 10, 13, 32}

RECURSIVE SkipWs(_, _)
SkipWs(b, i) == IF i <= Len(b) /\ IsWs(b[i]) THEN SkipWs(b, i + 1) ELSE i

PErr == [ok |-> FALSE]
POk(v, i) == [ok |-> TRUE, v |-> v, i |-> i]

\* Whether the bytes w stand at index i of b.
Lit(b, i, w) == i + Len(w) - 1 <= Len(b) /\ SubSeq(b, i, i + Len(w) - 1) = w

\* The digits from index i on: value so far acc; ends at the first non-digit.
RECURSIVE ParseDigits(_, _, _)
ParseDigits(b, i, acc) ==
    IF i <= Len(b) /\ b[i] >= 48 /\ b[i] <= 57
    THEN ParseDigits(b, i + 1, 10 * acc + (b[i] - 48))
    ELSE POk(acc, i)

\* An integer: '0', or a non-zero digit and more digits.
ParseNat(b, i) ==
    IF i > Len(b) \/ b[i] < 48 \/ b[i] > 57 THEN PErr
    ELSE IF b[i] = 48
         THEN IF i + 1 <= Len(b) /\ b[i + 1] >= 48 /\ b[i + 1] <= 57 THEN PErr
              ELSE POk(0, i + 1)
    ELSE ParseDigits(b, i, 0)

\* The byte an escape letter stands for, -1 for a letter the model leaves out.
UnescapeOf(c) ==
    CASE c = 34 -> 34
      [] c = 92 -> 92
      [] c = 47 -> 47
      [] c = 98 -> 8
      [] c = 116 -> 9
      [] c = 110 -> 10
      [] c = 102 -> 12
      [] c = 114 -> 13
      [] OTHER -> -1

\* The rest of a string after its opening quote.
RECURSIVE ParseStr(_, _, _)
ParseStr(b, i, acc) ==
    IF i > Len(b) THEN PErr
    ELSE IF b[i] = 34 THEN POk(acc, i + 1)
    ELSE IF b[i] = 92
         THEN IF i + 1 > Len(b) \/ UnescapeOf(b[i + 1]) < 0 THEN PErr
              ELSE ParseStr(b, i + 2, Append(acc, UnescapeOf(b[i + 1])))
    ELSE IF b[i] < 32 THEN PErr
    ELSE ParseStr(b, i + 1, Append(acc, b[i]))

\* A parsed string as a value; a parsed integer, with its sign, as a value.
StrValue(r) == IF r.ok THEN POk(JStr(r.v), r.i) ELSE PErr
NumValue(r, sign) == IF r.ok THEN POk(JNum(sign * r.v), r.i) ELSE PErr

RECURSIVE ParseValue(_, _), ParseValueAt(_, _), ParseItems(_, _, _),
          ItemsAfter(_, _, _), ItemsNext(_, _, _), ParseMembers(_, _, _),
          MemberColon(_, _, _), MemberAfter(_, _, _, _), MembersNext(_, _, _)

\* One value, after any white space.
ParseValue(b, i0) == ParseValueAt(b, SkipWs(b, i0))

\* One value at index i.
ParseValueAt(b, i) ==
    IF i > Len(b) THEN PErr
    ELSE CASE b[i] = 110 -> IF Lit(b, i, << 110, 117, 108, 108 >>)
                            THEN POk(JNull, i + 4) ELSE PErr
           [] b[i] = 116 -> IF Lit(b, i, << 116, 114, 117, 101 >>)
                            THEN POk(JBool(TRUE), i + 4) ELSE PErr
           [] b[i] = 102 -> IF Lit(b, i, << 102, 97, 108, 115, 101 >>)
                            THEN POk(JBool(FALSE), i + 5) ELSE PErr
           [] b[i] = 34 -> StrValue(ParseStr(b, i + 1, <<>>))
           [] b[i] = 45 -> NumValue(ParseNat(b, i + 1), -1)
           [] b[i] >= 48 /\ b[i] <= 57 -> NumValue(ParseNat(b, i), 1)
           [] b[i] = 91 -> ItemsNext(b, <<>>, SkipWs(b, i + 1))
           [] b[i] = 123 -> MembersNext(b, <<>>, SkipWs(b, i + 1))
           [] OTHER -> PErr

\* An item of an array from index i on, and what follows it.
ParseItems(b, i, acc) == ItemsAfter(b, acc, ParseValue(b, i))

ItemsAfter(b, acc, r) ==
    IF ~r.ok THEN PErr
    ELSE IF SkipWs(b, r.i) <= Len(b) /\ b[SkipWs(b, r.i)] = 93
         THEN POk(JArr(Append(acc, r.v)), SkipWs(b, r.i) + 1)
    ELSE IF SkipWs(b, r.i) <= Len(b) /\ b[SkipWs(b, r.i)] = 44
         THEN ParseItems(b, SkipWs(b, r.i) + 1, Append(acc, r.v))
    ELSE PErr

\* Right after '[' and white space: the closing bracket, or the first item.
ItemsNext(b, acc, k) ==
    IF k <= Len(b) /\ b[k] = 93 THEN POk(JArr(acc), k + 1)
    ELSE ParseItems(b, k, acc)

\* A member of an object from the key at index i on, and what follows it.
ParseMembers(b, i, acc) ==
    IF i > Len(b) \/ b[i] # 34 THEN PErr
    ELSE MemberColon(b, acc, ParseStr(b, i + 1, <<>>))

MemberColon(b, acc, key) ==
    IF ~key.ok THEN PErr
    ELSE IF SkipWs(b, key.i) > Len(b) \/ b[SkipWs(b, key.i)] # 58 THEN PErr
    ELSE MemberAfter(b, acc, key.v, ParseValue(b, SkipWs(b, key.i) + 1))

MemberAfter(b, acc, k, r) ==
    IF ~r.ok THEN PErr
    ELSE IF SkipWs(b, r.i) <= Len(b) /\ b[SkipWs(b, r.i)] = 125
         THEN POk(JObj(MapInsert(acc, k, r.v)), SkipWs(b, r.i) + 1)
    ELSE IF SkipWs(b, r.i) <= Len(b) /\ b[SkipWs(b, r.i)] = 44
         THEN ParseMembers(b, SkipWs(b, SkipWs(b, r.i) + 1), MapInsert(acc, k, r.v))
    ELSE PErr

\* Right after '{' and white space: the closing brace, or the first member.
MembersNext(b, acc, k) ==
    IF k <= Len(b) /\ b[k] = 125 THEN POk(JObj(acc), k + 1)
    ELSE ParseMembers(b, k, acc)

\* Nothing but white space after the value.
WholeValue(b, r) ==
    IF r.ok /\ SkipWs(b, r.i) > Len(b) THEN [ok |-> TRUE, v |-> r.v] ELSE PErr

\* serde_json::from_str: one value, and nothing but white space after it.
JsonFromStr(b) == WholeValue(b, ParseValue(b, 1))


\* ------------------------------------------------------------------ Value
\* enum Value: the tag of the wire format and the payload of the variant.

VNull == [tag |-> 0]
VInteger(i) == [tag |-> 1, i |-> i]
VFloat(f) == [tag |-> 2, f |-> f]
VText(s) == [tag |-> 3, s |-> s]
VBlob(b) == [tag |-> 4, b |-> b]
VBoolean(b) == [tag |-> 5, bool |-> b]
VJsonb(j) == [tag |-> 6, j |-> j]
VVector(v) == [tag |-> 7, v |-> v]
VTimestamp(t) == [tag |-> 8, ts |-> t]
VGeoPoint(lat, lon) == [tag |-> 9, lat |-> lat, lon |-> lon]

\* The == of Value that #[derive(PartialEq)] generates: same variant and equal
\* payloads, floats compared as IEEE floats.
ValueEq(a, b) ==
    /\ a.tag = b.tag
    /\ CASE a.tag = 2 -> F64Eq(a.f, b.f)
         [] a.tag = 7 -> /\ Len(a.v) = Len(b.v)
                         /\ \A k \in 1..Len(a.v) : F32Eq(a.v[k], b.v[k])
         [] a.tag = 9 -> F64Eq(a.lat, b.lat) /\ F64Eq(a.lon, b.lon)
         [] OTHER -> a = b

\* ----------------------------------------------------------------- encode

\* The payload encode_value writes after the tag byte.
EncodePayload(val) ==
    CASE val.tag = 0 -> <<>>
      [] val.tag = 1 -> I64ToLe(val.i)
      [] val.tag = 2 -> F64ToLe(val.f)
      [] val.tag = 3 -> U32ToLe(Len(val.s)) \o val.s
      [] val.tag = 4 -> U32ToLe(Len(val.b)) \o val.b
      [] val.tag = 5 -> << IF val.bool THEN 1 ELSE 0 >>
      [] val.tag = 6 -> LET b == JsonToString(val.j) IN U32ToLe(Len(b)) \o b
      [] val.tag = 7 -> U32ToLe(Len(val.v))
                        \o Concat([k \in 1..Len(val.v) |-> F32ToLe(val.v[k])])
      [] val.tag = 8 -> I64ToLe(val.ts)
      [] val.tag = 9 -> F64ToLe(val.lat) \o F64ToLe(val.lon)

\* encode_value with the Timestamp arm writing the tag of Integer.
encode_value_TimestampAsInteger(buf, val) ==
    buf \o << IF val.tag = 8 THEN 1 ELSE val.tag >> \o EncodePayload(val)

\* encode_value(buf, val): buf with the tag and the payload pushed.
encode_value(buf, val) == buf \o << val.tag >> \o EncodePayload(val)

RECURSIVE EncodeAll(_, _)
EncodeAll(buf, vals) ==
    IF vals = <<>> THEN buf ELSE EncodeAll(encode_value(buf, Head(vals)), Tail(vals))

\* encode_params without the count in front.
encode_params_NoCount(params) == EncodeAll(<<>>, params)

\* encode_params: the count, then each parameter.
encode_params(params) == EncodeAll(U32ToLe(Len(params)), params)

\* ----------------------------------------------------------------- decode
\* A decode ends in Ok((value, consumed)), in Err(message), or in a panic of
\* an out-of-range index.  top is the end of the highest byte range the
\* decode asked of the buffer.

DOk(v, n, top) == [kind |-> "ok", val |-> v, consumed |-> n, top |-> top]
DErr(m, top) == [kind |-> "err", msg |-> m, top |-> top]
DPanic(top) == [kind |-> "panic", top |-> top]

\* Tags 1 and 8: eight bytes of i64.
DecodeI64(data, off, tag, msg) ==
    IF off + 8 > Len(data) THEN DErr(msg, off)
    ELSE IF ~InRange(data, off, off + 8) THEN DPanic(off + 8)
    ELSE LET v == I64FromLe(Slice(data, off, off + 8))
         IN  DOk(IF tag = 1 THEN VInteger(v) ELSE VTimestamp(v), 9, off + 8)

\* Tag 2: eight bytes of f64.
DecodeF64(data, off) ==
    IF off + 8 > Len(data) THEN DErr("truncated f64", off)
    ELSE IF ~InRange(data, off, off + 8) THEN DPanic(off + 8)
    ELSE DOk(VFloat(F64FromLe(Slice(data, off, off + 8))), 9, off + 8)

\* DecodeText without the check of the declared length against the buffer.
DecodeTextUnchecked(data, off) ==
    IF off + 4 > Len(data) THEN DErr("truncated text len", off)
    ELSE IF ~InRange(data, off, off + 4) THEN DPanic(off + 4)
    ELSE LET len == U32FromLe(Slice(data, off, off + 4))
             start == off + 4
         IN  IF ~InRange(data, start, start + len) THEN DPanic(start + len)
             ELSE IF ~Utf8Valid(Slice(data, start, start + len))
                  THEN DErr("invalid utf8 in text", start + len)
             ELSE DOk(VText(Slice(data, start, start + len)), 5 + len, start + len)

\* Tag 3: a length and that many bytes of UTF-8.
DecodeText(data, off) ==
    IF off + 4 > Len(data) THEN DErr("truncated text len", off)
    ELSE IF ~InRange(data, off, off + 4) THEN DPanic(off + 4)
    ELSE LET len == U32FromLe(Slice(data, off, off + 4))
             start == off + 4
         IN  IF start + len > Len(data) THEN DErr("truncated text data", start)
             ELSE IF ~InRange(data, start, start + len) THEN DPanic(start + len)
             ELSE IF ~Utf8Valid(Slice(data, start, start + len))
                  THEN DErr("invalid utf8 in text", start + len)
             ELSE DOk(VText(Slice(data, start, start + len)), 5 + len, start + len)

\* Tag 4: a length and that many bytes.
DecodeBlob(data, off) ==
    IF off + 4 > Len(data) THEN DErr("truncated blob len", off)
    ELSE IF ~InRange(data, off, off + 4) THEN DPanic(off + 4)
    ELSE LET len == U32FromLe(Slice(data, off, off + 4))
             start == off + 4
         IN  IF start + len > Len(data) THEN DErr("truncated blob data", start)
             ELSE IF ~InRange(data, start, start + len) THEN DPanic(start + len)
             ELSE DOk(VBlob(Slice(data, start, start + len)), 5 + len, start + len)

\* A Boolean that counts its tag byte only.
DecodeBool_TagOnly(data, off) ==
    IF off >= Len(data) THEN [kind |-> "err", msg |-> "truncated bool", top |-> off]
    ELSE [kind |-> "ok", val |-> [tag |-> 5, bool |-> data[off + 1] # 0], consumed |-> 1,
          top |-> off + 1]

\* Tag 5: one byte, true unless zero.
DecodeBool(data, off) ==
    IF off >= Len(data) THEN DErr("truncated bool", off)
    ELSE IF ~InRange(data, off, off + 1) THEN DPanic(off + 1)
    ELSE DOk(VBoolean(At(data, off) # 0), 2, off + 1)

\* The Jsonb value of a parse, n bytes consumed.
JsonbOf(j, n, top) ==
    IF ~j.ok THEN DErr("jsonb parse", top) ELSE DOk(VJsonb(j.v), n, top)

\* The text of a Jsonb payload, checked and parsed.
JsonbText(s, n, top) ==
    IF ~Utf8Valid(s) THEN DErr("invalid utf8 in jsonb", top)
    ELSE JsonbOf(JsonFromStr(s), n, top)

\* Tag 6: a length and that many bytes of JSON text.
DecodeJsonb(data, off) ==
    IF off + 4 > Len(data) THEN DErr("truncated jsonb len", off)
    ELSE IF ~InRange(data, off, off + 4) THEN DPanic(off + 4)
    ELSE LET len == U32FromLe(Slice(data, off, off + 4))
             start == off + 4
         IN  IF start + len > Len(data) THEN DErr("truncated jsonb data", start)
             ELSE IF ~InRange(data, start, start + len) THEN DPanic(start + len)
             ELSE JsonbText(Slice(data, start, start + len), 5 + len, start + len)

\* Tag 7: a dimension and that many f32.
DecodeVector(data, off) ==
    IF off + 4 > Len(data) THEN DErr("truncated vec dim", off)
    ELSE IF ~InRange(data, off, off + 4) THEN DPanic(off + 4)
    ELSE LET dim == U32FromLe(Slice(data, off, off + 4))
             start == off + 4
             byte_len == dim * 4
         IN  IF start + byte_len > Len(data) THEN DErr("truncated vec data", start)
             ELSE IF ~InRange(data, start, start + byte_len)
                  THEN DPanic(start + byte_len)
             ELSE DOk(VVector([i \in 1..dim |->
                                 F32FromLe(Slice(data, start + (i - 1) * 4,
                                                 start + (i - 1) * 4 + 4))]),
                      5 + byte_len, start + byte_len)

\* Tag 9: two f64.
DecodeGeoPoint(data, off) ==
    IF off + 16 > Len(data) THEN DErr("truncated geopoint", off)
    ELSE IF ~InRange(data, off, off + 16) THEN DPanic(off + 16)
    ELSE DOk(VGeoPoint(F64FromLe(Slice(data, off, off + 8)),
                       F64FromLe(Slice(data, off + 8, off + 16))),
             17, off + 16)

\* The match on the tag byte with a catch-all arm that yields Null.
DecodeTagLenient(data, tag, off) ==
    CASE tag = 1 -> DecodeI64(data, off, 1, "truncated i64")
      [] tag = 2 -> DecodeF64(data, off)
      [] tag = 3 -> DecodeText(data, off)
      [] tag = 4 -> DecodeBlob(data, off)
      [] tag = 5 -> DecodeBool(data, off)
      [] tag = 6 -> DecodeJsonb(data, off)
      [] tag = 7 -> DecodeVector(data, off)
      [] tag = 8 -> DecodeI64(data, off, 8, "truncated timestamp")
      [] tag = 9 -> DecodeGeoPoint(data, off)
      [] OTHER -> DOk(VNull, 1, off)

\* The match on the tag byte.
DecodeTag(data, tag, off) ==
    CASE tag = 0 -> DOk(VNull, 1, off)
      [] tag = 1 -> DecodeI64(data, off, 1, "truncated i64")
      [] tag = 2 -> DecodeF64(data, off)
      [] tag = 3 -> DecodeText(data, off)
      [] tag = 4 -> DecodeBlob(data, off)
      [] tag = 5 -> DecodeBool(data, off)
      [] tag = 6 -> DecodeJsonb(data, off)
      [] tag = 7 -> DecodeVector(data, off)
      [] tag = 8 -> DecodeI64(data, off, 8, "truncated timestamp")
      [] tag = 9 -> DecodeGeoPoint(data, off)
      [] OTHER -> [kind |-> "err", msg |-> "unknown binary type tag", tag |-> tag,
                   top |-> off]

\* decode_value(data, pos).
decode_value(data, pos) ==
    IF pos >= Len(data) THEN DErr("unexpected end of binary data", 0)
    ELSE DecodeTag(data, At(data, pos), pos + 1)


Max(a, b) == IF a >= b THEN a ELSE b

RECURSIVE DecodeRow(_, _, _, _, _), RowPush(_, _, _, _, _, _)

\* The inner loop of decode_rows_bin: n more cells of one row, from pos.
DecodeRow(data, pos, n, row, top) ==
    IF n = 0 THEN [kind |-> "ok", row |-> row, pos |-> pos, top |-> top]
    ELSE RowPush(data, pos, n, row, top, decode_value(data, pos))

\* Its body: the decoded cell d pushed and the cursor advanced, or the error.
RowPush(data, pos, n, row, top, d) ==
    IF d.kind # "ok" THEN [d EXCEPT !.top = Max(top, d.top)]
    ELSE DecodeRow(data, pos + d.consumed, n - 1, Append(row, d.val), Max(top, d.top))

RECURSIVE DecodeRowsLoop(_, _, _, _, _), RowsPush(_, _, _, _, _)

\* The outer loop of decode_rows_bin: n more rows of col_count cells, from pos.
DecodeRowsLoop(data, pos, n, col_count, acc) ==
    IF n = 0 THEN [kind |-> "ok", rows |-> acc.rows, pos |-> pos, top |-> acc.top]
    ELSE RowsPush(data, n, col_count, acc, DecodeRow(data, pos, col_count, <<>>, acc.top))

\* Its body: the decoded row r pushed, or the error.
RowsPush(data, n, col_count, acc, r) ==
    IF r.kind # "ok" THEN r
    ELSE DecodeRowsLoop(data, r.pos, n - 1, col_count,
                        [rows |-> Append(acc.rows, r.row), top |-> r.top])

\* decode_rows_bin reading col_count before row_count.
decode_rows_bin_swapped(data) ==
    IF Len(data) < 8 THEN DErr("binary result too short", 0)
    ELSE LET col_count == U32FromLe(Slice(data, 0, 4))
             row_count == U32FromLe(Slice(data, 4, 8))
         IN  DecodeRowsLoop(data, 8, row_count, col_count, [rows |-> <<>>, top |-> 8])

\* decode_rows_bin(data).
decode_rows_bin(data) ==
    IF Len(data) < 8 THEN DErr("binary result too short", 0)
    ELSE LET row_count == U32FromLe(Slice(data, 0, 4))
             col_count == U32FromLe(Slice(data, 4, 8))
         IN  DecodeRowsLoop(data, 8, row_count, col_count, [rows |-> <<>>, top |-> 8])


\* The checks of run_sql with only the null test before the decode.
RowsOutcome_NullOnly(rc, ptr, len) ==
    IF rc # 0 THEN "fail"
    ELSE IF ptr = 0 THEN "empty"
    ELSE "decode"

\* The result handling of run_sql and run_sql_param after the boundary call:
\* "fail" on a non-zero status, "empty" on a null pointer or a zero length,
\* "decode" otherwise.
RowsOutcome(rc, ptr, len) ==
    IF rc # 0 THEN "fail"
    ELSE IF ptr = 0 \/ len = 0 THEN "empty"
    ELSE "decode"

\* What run_sql returns given the boundary's status, pointer and bytes.
RunSqlResult(rc, ptr, bytes) ==
    CASE RowsOutcome(rc, ptr, Len(bytes)) = "fail" -> DErr("run_sql FFI failed", 0)
      [] RowsOutcome(rc, ptr, Len(bytes)) = "empty" ->
             [kind |-> "ok", rows |-> <<>>, pos |-> 0, top |-> 0]
      [] OTHER -> decode_rows_bin(bytes)

\* decode_vector_bin: the ids are u64, in the limbs of I64 with hi unsigned.
U64FromLe(b) ==
    [lo |-> b[1] + 256 * b[2] + 65536 * b[3],
     mid |-> b[4] + 256 * b[5] + 65536 * b[6],
     hi |-> b[7] + 256 * b[8]]

\* The loop with each entry put in front of the ones before it.
RECURSIVE DecodeHits_Reversed(_, _, _, _)
DecodeHits_Reversed(data, i, count, out) ==
    IF i >= count THEN out
    ELSE DecodeHits_Reversed(data, i + 1, count,
             << [id |-> U64FromLe(Slice(data, 4 + i * 12, 12 + i * 12)),
                 dist |-> F32FromLe(Slice(data, 12 + i * 12, 16 + i * 12))] >> \o out)

\* The loop of decode_vector_bin: entries i .. count-1.
RECURSIVE DecodeHits(_, _, _, _)
DecodeHits(data, i, count, out) ==
    IF i >= count THEN out
    ELSE DecodeHits(data, i + 1, count,
                    Append(out, [id |-> U64FromLe(Slice(data, 4 + i * 12, 12 + i * 12)),
                                 dist |-> F32FromLe(Slice(data, 12 + i * 12, 16 + i * 12))]))

\* decode_vector_bin(data).
decode_vector_bin(data) ==
    IF Len(data) < 4 THEN DErr("vector binary result too short", 0)
    ELSE IF Len(data) < 4 + U32FromLe(Slice(data, 0, 4)) * 12
         THEN DErr("vector binary result truncated", 4)
    ELSE [kind |-> "ok", hits |-> DecodeHits(data, 0, U32FromLe(Slice(data, 0, 4)), <<>>),
          top |-> 4 + U32FromLe(Slice(data, 0, 4)) * 12]


\* --------------------------------------------------- the command envelope


\* The keys and names of the envelope, as the bytes of their text.
Str ==
    [module |-> << 109, 111, 100, 117, 108, 101 >>,
     action |-> << 97, 99, 116, 105, 111, 110 >>,
     params |-> << 112, 97, 114, 97, 109, 115 >>,
     name |-> << 110, 97, 109, 101 >>,
     doc_id |-> << 100, 111, 99, 95, 105, 100 >>,
     fields |-> << 102, 105, 101, 108, 100, 115 >>,
     query |-> << 113, 117, 101, 114, 121 >>,
     limit |-> << 108, 105, 109, 105, 116 >>,
     index |-> << 105, 110, 100, 101, 120 >>,
     id |-> << 105, 100 >>,
     fts |-> << 102, 116, 115 >>,
     vector |-> << 118, 101, 99, 116, 111, 114 >>,
     create_index |-> << 99, 114, 101, 97, 116, 101, 95, 105, 110, 100, 101, 120 >>,
     delete |-> << 100, 101, 108, 101, 116, 101 >>,
     search |-> << 115, 101, 97, 114, 99, 104 >>,
     count |-> << 99, 111, 117, 110, 116 >>,
     database_stats |-> << 100, 97, 116, 97, 98, 97, 115, 101, 95, 115, 116, 97, 116, 115 >>,
     health_check |-> << 104, 101, 97, 108, 116, 104, 95, 99, 104, 101, 99, 107 >>,
     ok |-> << 111, 107 >>,
     error |-> << 101, 114, 114, 111, 114 >>,
     data |-> << 100, 97, 116, 97 >>,
     hits |-> << 104, 105, 116, 115 >>,
     score |-> << 115, 99, 111, 114, 101 >>,
     deleted |-> << 100, 101, 108, 101, 116, 101, 100 >>,
     status |-> << 115, 116, 97, 116, 117, 115 >>,
     unknown |-> << 117, 110, 107, 110, 111, 119, 110 >>]

\* What an operation returns: Ok(value), Err(message), a plain value
\* (health_check), or a panic.  text is the far side's error string, where
\* the message is one.
ROk(v) == [kind |-> "ok", val |-> v]
RErr(m) == [kind |-> "err", msg |-> m]
RErrText(s) == [kind |-> "err", msg |-> "response error", text |-> s]
RValue(v) == [kind |-> "value", val |-> v]
RPanic == [kind |-> "panic"]

\* serde_json::Value::get(key): a member of an object, None of anything else.
JGet(v, k) == IF v.t = "obj" THEN MapGet(v.o, k) ELSE [some |-> FALSE]

\* Option::and_then(|d| d.get(key)).
AndThenGet(opt, k) == IF opt.some THEN JGet(opt.v, k) ELSE [some |-> FALSE]

\* A json!({..}) object of the given members.
RECURSIVE JsonObject(_)
JsonObject(members) ==
    IF members = <<>> THEN <<>>
    ELSE MapInsert(JsonObject(Tail(members)), Head(members)[1], Head(members)[2])

\* json!(fields) of a BTreeMap<String, String>.
RECURSIVE FieldsObject(_)
FieldsObject(fields) ==
    IF fields = <<>> THEN <<>>
    ELSE MapInsert(FieldsObject(Tail(fields)), Head(fields)[1], JStr(Head(fields)[2]))

\* {"module": module, "action": action, "params": params}.
Envelope(module, action, params) ==
    JObj(JsonObject(<< << Str.module, JStr(module) >>, << Str.action, JStr(action) >>,
                       << Str.params, JObj(JsonObject(params)) >> >>))

\* The command each envelope operation builds from its arguments.
Command(op, arg) ==
    CASE op = "create_index" ->
             Envelope(Str.fts, Str.create_index, << << Str.name, JStr(arg.name) >> >>)
      [] op = "index_doc" ->
             Envelope(Str.fts, Str.index,
                      << << Str.name, JStr(arg.name) >>, << Str.doc_id, JStr(arg.aux) >>,
                         << Str.fields, JObj(FieldsObject(arg.fields)) >> >>)
      [] op = "delete_doc" ->
             Envelope(Str.fts, Str.delete,
                      << << Str.name, JStr(arg.name) >>, << Str.doc_id, JStr(arg.aux) >> >>)
      [] op = "search" ->
             Envelope(Str.fts, Str.search,
                      << << Str.name, JStr(arg.name) >>, << Str.query, JStr(arg.aux) >>,
                         << Str.limit, JNum(arg.n) >> >>)
      [] op = "vector_delete" ->
             Envelope(Str.vector, Str.delete,
                      << << Str.index, JStr(arg.name) >>, << Str.id, JNum(arg.n) >> >>)
      [] op = "count" ->
             Envelope(Str.vector, Str.count, << << Str.index, JStr(arg.name) >> >>)
      [] op = "database_stats" ->
             JObj(JsonObject(<< << Str.module, JStr(Str.database_stats) >> >>))
      [] op = "health_check" ->
             JObj(JsonObject(<< << Str.module, JStr(Str.health_check) >> >>))

\* exec_cmd on a parsed response: Ok(()) when "ok" is the boolean true, else
\* the "error" string, or "unknown".
IsTrue(opt) == opt.some /\ opt.v.t = "bool" /\ opt.v.b
ErrorText(opt) == IF opt.some /\ opt.v.t = "str" THEN opt.v.s ELSE Str.unknown
exec_cmd(resp) ==
    IF IsTrue(JGet(resp, Str.ok)) THEN ROk(<<>>) ELSE RErrText(ErrorText(JGet(resp, Str.error)))

\* delete_doc: data.deleted as a boolean, or false.
DeletedOf(opt) == IF opt.some /\ opt.v.t = "bool" THEN opt.v.b ELSE FALSE
delete_doc(resp) == ROk(DeletedOf(AndThenGet(JGet(resp, Str.data), Str.deleted)))

\* The closure of search's filter_map on one element of data.hits: a hit
\* when doc_id is a string and score a number.
IsHit(id, score) == id.some /\ id.v.t = "str" /\ score.some /\ score.v.t = "num"
RECURSIVE FilterHits(_)
FilterHits(arr) ==
    IF arr = <<>> THEN <<>>
    ELSE (IF IsHit(JGet(Head(arr), Str.doc_id), JGet(Head(arr), Str.score))
          THEN << [doc_id |-> JGet(Head(arr), Str.doc_id).v.s,
                   score |-> JGet(Head(arr), Str.score).v.n] >>
          ELSE <<>>) \o FilterHits(Tail(arr))

\* search with an error for a data.hits that is no array.
search_Strict(resp) ==
    IF AndThenGet(JGet(resp, Str.data), Str.hits).some
       /\ AndThenGet(JGet(resp, Str.data), Str.hits).v.t = "arr"
    THEN ROk(FilterHits(AndThenGet(JGet(resp, Str.data), Str.hits).v.a))
    ELSE RErr("missing hits")

\* search: the hits of data.hits when it is an array, or none.
HitsOf(opt) == IF opt.some /\ opt.v.t = "arr" THEN FilterHits(opt.v.a) ELSE <<>>
search(resp) == ROk(HitsOf(AndThenGet(JGet(resp, Str.data), Str.hits)))

\* count: data.count as a u64, or 0.
CountOf(opt) == IF opt.some /\ opt.v.t = "num" /\ opt.v.n >= 0 THEN opt.v.n ELSE 0
count(resp) == ROk(CountOf(AndThenGet(JGet(resp, Str.data), Str.count)))

\* database_stats and health_check: data, or {}.
DataOf(opt) == IF opt.some THEN opt.v ELSE JObj(<<>>)
database_stats(resp) == ROk(DataOf(JGet(resp, Str.data)))
health_check(resp) == RValue(DataOf(JGet(resp, Str.data)))

\* What an envelope operation makes of the parsed response.
Project(op, resp) ==
    CASE op \in {"create_index", "index_doc", "vector_delete"} -> exec_cmd(resp)
      [] op = "delete_doc" -> delete_doc(resp)
      [] op = "search" -> search(resp)
      [] op = "count" -> count(resp)
      [] op = "database_stats" -> database_stats(resp)
      [] op = "health_check" -> health_check(resp)

\* What an envelope operation makes of an Err of exec_cmd_json: health_check
\* answers {"status": "error"}, the others pass it on.
OnExecErr(op, err) ==
    IF op = "health_check"
    THEN RValue(JObj(JsonObject(<< << Str.status, JStr(Str.error) >> >>)))
    ELSE err

\* The end of exec_cmd_json and the projection: the parse of the copied text.
ParsedResponse(op, j) ==
    IF j.ok THEN Project(op, j.v) ELSE OnExecErr(op, RErr("JSON parse"))

\* The loop of to_string_lossy, from index i on.
RECURSIVE LossyFrom(_, _, _)
LossyFrom(b, i, acc) ==
    IF i > Len(b) THEN acc
    ELSE IF Utf8Len(b, i) = 0 THEN LossyFrom(b, i + 1, acc \o << 239, 191, 189 >>)
    ELSE LossyFrom(b, i + Utf8Len(b, i), acc \o SubSeq(b, i, i + Utf8Len(b, i) - 1))

\* CStr::to_string_lossy: the bytes up to the terminator, each byte that
\* starts no UTF-8 character replaced by U+FFFD.  (The library writes one
\* U+FFFD for the several bytes of a character cut short: no text of the
\* model holds one.)
ToStringLossy(b) == IF Utf8Valid(b) THEN b ELSE LossyFrom(b, 1, <<>>)

\* CString::new(s) fails on a string that holds a nul byte.
HasNul(s) == \E i \in 1..Len(s) : s[i] = 0


\* ------------------------------------------------ the boundary, near side

\* How an operation uses the boundary: a status only, a row buffer, a hit
\* buffer, a value buffer, or the text of talon_execute.
OpKind(op) ==
    CASE op \in {"run_sql", "run_sql_param"} -> "rows"
      [] op = "vector_search" -> "hits"
      [] op = "kv_get" -> "kv"
      [] op \in {"kv_set", "kv_del", "vector_insert", "persist"} -> "status"
      [] OTHER -> "execute"

\* A vector search that makes a C string of the index name only.
CTexts_NameOnly(op, arg) ==
    CASE op \in {"run_sql", "run_sql_param", "vector_insert", "vector_search"} -> << arg.name >>
      [] OpKind(op) = "execute" -> << JsonToString(Command(op, arg)) >>
      [] OTHER -> <<>>

\* The strings an operation turns into C strings before its call, in order.
CTexts(op, arg) ==
    CASE op \in {"run_sql", "run_sql_param", "vector_insert"} -> << arg.name >>
      [] op = "vector_search" -> << arg.name, arg.aux >>
      [] OpKind(op) = "execute" -> << JsonToString(Command(op, arg)) >>
      [] OTHER -> <<>>

\* What the boundary call is given: the handle, the text, and for
\* run_sql_param the encoded parameters.
Sent(op, arg, handle) ==
    [handle |-> handle,
     text |-> IF CTexts(op, arg) = <<>> THEN arg.name ELSE CTexts(op, arg)[1],
     params |-> IF op = "run_sql_param" THEN encode_params(arg.params) ELSE <<>>]

\* The result of an operation one of whose strings holds a nul byte.
NulResult(op) ==
    IF OpKind(op) = "execute" THEN OnExecErr(op, RErr("NUL byte in string"))
    ELSE RErr("NUL byte in string")

\* The message of an operation whose call returned a non-zero status.
FailMsg(op) ==
    CASE op = "run_sql" -> "run_sql FFI failed"
      [] op = "run_sql_param" -> "run_sql_param FFI failed"
      [] op = "vector_search" -> "vector_search FFI failed"
      [] op = "vector_insert" -> "vector_insert FFI failed"
      [] op = "kv_get" -> "kv_get FFI failed"
      [] op = "kv_set" -> "kv_set FFI failed"
      [] op = "kv_del" -> "kv_del FFI failed"
      [] op = "persist" -> "persist FFI failed"
      [] OTHER -> "execute FFI failed"

\* The free function an operation hands its buffer to.
FreeFn(op) == IF OpKind(op) = "execute" THEN "talon_free_string" ELSE "talon_free_bytes"

\* An operation that does not look at the status of its call.
AfterCall_IgnoreStatus(op, rc, ptr, len) ==
    IF ptr = 0 \/ OpKind(op) = "status" THEN [kind |-> "ok", val |-> <<>>]
    ELSE [kind |-> "none"]

\* An operation whose kv get takes a buffer of length 0 for an absent value,
\* as the row and hit operations do.
AfterCall_KvEmptyAbsent(op, rc, ptr, len) ==
    CASE OpKind(op) = "status" ->
             IF rc # 0 THEN [kind |-> "err", msg |-> FailMsg(op)]
             ELSE [kind |-> "ok", val |-> <<>>]
      [] OpKind(op) \in {"rows", "hits"} ->
             CASE RowsOutcome(rc, ptr, len) = "fail" -> [kind |-> "err", msg |-> FailMsg(op)]
               [] RowsOutcome(rc, ptr, len) = "empty" -> [kind |-> "ok", val |-> <<>>]
               [] OTHER -> [kind |-> "none"]
      [] OpKind(op) = "kv" ->
             IF rc # 0 THEN [kind |-> "err", msg |-> FailMsg(op)]
             ELSE IF ptr = 0 \/ len = 0 THEN [kind |-> "ok", val |-> [some |-> FALSE]]
             ELSE [kind |-> "none"]
      [] OTHER ->
             IF rc # 0 THEN OnExecErr(op, [kind |-> "err", msg |-> FailMsg(op)])
             ELSE IF ptr = 0
                  THEN OnExecErr(op, [kind |-> "err", msg |-> "execute returned null output"])
             ELSE [kind |-> "none"]

\* The tests an operation makes on what its call returned: the result, when
\* it returns at once, or none when it goes on to read the buffer.
NoResult == [kind |-> "none"]
AfterCall(op, rc, ptr, len) ==
    CASE OpKind(op) = "status" -> IF rc # 0 THEN RErr(FailMsg(op)) ELSE ROk(<<>>)
      [] OpKind(op) \in {"rows", "hits"} ->
             CASE RowsOutcome(rc, ptr, len) = "fail" -> RErr(FailMsg(op))
               [] RowsOutcome(rc, ptr, len) = "empty" -> ROk(<<>>)
               [] OTHER -> NoResult
      [] OpKind(op) = "kv" ->
             IF rc # 0 THEN RErr(FailMsg(op))
             ELSE IF ptr = 0 THEN ROk([some |-> FALSE])
             ELSE NoResult
      [] OTHER ->
             IF rc # 0 THEN OnExecErr(op, RErr(FailMsg(op)))
             ELSE IF ptr = 0 THEN OnExecErr(op, RErr("execute returned null output"))
             ELSE NoResult

\* The result of a decode as the operation's result.
AsResult(d) ==
    CASE d.kind = "ok" -> ROk(IF "rows" \in DOMAIN d THEN d.rows ELSE d.hits)
      [] d.kind = "err" -> RErr(d.msg)
      [] OTHER -> RPanic

\* What an operation makes of the bytes behind its pointer: the decode, or
\* the owned copy.
ReadResult(op, bytes) ==
    CASE OpKind(op) = "rows" -> AsResult(decode_rows_bin(bytes))
      [] OpKind(op) = "hits" -> AsResult(decode_vector_bin(bytes))
      [] OpKind(op) = "kv" -> ROk([some |-> TRUE, v |-> bytes])
      [] OTHER -> NoResult
ReadCopy(op, bytes) == IF OpKind(op) = "execute" THEN ToStringLossy(bytes) ELSE <<>>

\* What an operation returns once its buffer is freed.
Finish(op, copy, result) ==
    IF OpKind(op) = "execute" THEN ParsedResponse(op, JsonFromStr(copy)) ELSE result

\* An operation that frees its buffer before it reads it.
NextStep_FreeFirst(pc) ==
    CASE pc = "call" -> "free"
      [] pc = "free" -> "read"
      [] OTHER -> "done"

\* The order of an operation on a buffer it was handed: read, free, return.
NextStep(pc) ==
    CASE pc = "call" -> "read"
      [] pc = "read" -> "free"
      [] OTHER -> "done"

\* A drop that closes the handle a second time.
CloseCalls_Twice(handle) == << handle, handle >>

\* The talon_close calls drop makes for a handle.
CloseCalls(handle) == IF handle # 0 THEN << handle >> ELSE <<>>


\* ------------------------------------------------------------ the inputs

\* The length of the arbitrary tail of a buffer that is not well-formed.
MaxTail == 4

F64Zero == F64(0, 0, 0, 0, 0)
F64NegZero == F64(1, 0, 0, 0, 0)
F64NaN == F64(0, 2047, 524288, 0, 0)
F64Inf == F64(0, 2047, 0, 0, 0)
F64NegInf == F64(1, 2047, 0, 0, 0)
F64Tenth == F64(0, 1019, 629145, 39321, 39322)
F64Ninety == F64(0, 1029, 425984, 0, 0)
F64NegNinety == F64(1, 1029, 425984, 0, 0)
F64OneEighty == F64(0, 1030, 425984, 0, 0)
F64NegOneEighty == F64(1, 1030, 425984, 0, 0)
I64Min == [lo |-> 0, mid |-> 0, hi |-> -32768]
I64Max == [lo |-> 16777215, mid |-> 16777215, hi |-> 32767]
F32One == F32(0, 127, 0)
F32Eighth == F32(0, 124, 0)
F32NaN == F32(0, 255, 4194304)
F32NegInf == F32(1, 255, 0)

JsonDocs ==
    { JNull, JBool(TRUE), JBool(FALSE), JNum(0), JNum(-12), JNum(305),
      JStr(<<>>), JStr(<< 97, 34, 98, 92, 10 >>), JStr(<< 195, 169 >>),
      JArr(<<>>), JArr(<< JNum(1), JArr(<< JStr(<< 63 >>), JNull >>) >>),
      JObj(<<>>),
      JObj(<< << << 97 >>, JNum(1) >>,
              << << 98 >>, JArr(<< JNull, JObj(<< << <<>>, JBool(TRUE) >> >>) >>) >> >>) }

\* The values the round trip is tried on: every variant, with its edge payloads.
Values ==
    { VNull }
    \cup { VInteger(i) : i \in { I64(0), I64(-1), I64(258), I64(-2147483647),
                                 I64Min, I64Max } }
    \cup { VFloat(f) : f \in { F64Zero, F64NegZero, F64NaN, F64Inf, F64NegInf,
                               F64Tenth } }
    \cup { VText(t) : t \in { <<>>, << 97 >>, << 105, 116, 39, 115 >>, << 195, 169 >>,
                              << 226, 130, 172 >>, << 240, 159, 152, 128 >>, << 0 >> } }
    \cup { VBlob(b) : b \in { <<>>, << 0 >>, << 255, 10, 0, 128 >> } }
    \cup { VBoolean(b) : b \in BOOLEAN }
    \cup { VJsonb(j) : j \in JsonDocs }
    \cup { VVector(v) : v \in { <<>>, << F32One >>, << F32Eighth, F32NegInf >>,
                                << F32NaN >> } }
    \cup { VTimestamp(t) : t \in { I64(0), I64(1700000000), I64(-1) } }
    \cup { VGeoPoint(p[1], p[2]) : p \in { << F64Ninety, F64OneEighty >>,
                                           << F64NegNinety, F64NegOneEighty >>,
                                           << F64Zero, F64NaN >> } }

Row1 == << VInteger(I64(-1)), VText(<< 97 >>), VNull, VVector(<< F32One >>) >>
Row2 == << VBoolean(TRUE), VBlob(<<>>), VJsonb(JArr(<< JNum(1) >>)), VFloat(F64Tenth) >>
Row3 == << VTimestamp(I64(7)), VGeoPoint(F64Zero, F64Ninety), VText(<<>>), VBoolean(FALSE) >>

\* The row sets the far side is taken to send: rows of ncols cells each.
Grids ==
    { [rows |-> <<>>, ncols |-> 0],
      [rows |-> <<>>, ncols |-> 3],
      [rows |-> << <<>>, <<>> >>, ncols |-> 0],
      [rows |-> << << VNull >> >>, ncols |-> 1],
      [rows |-> << << VBoolean(TRUE), VText(<< 97 >>) >>,
                   << VBlob(<< 9 >>), VNull >> >>, ncols |-> 2],
      [rows |-> << Row1, Row2, Row3 >>, ncols |-> 4] }

\* The wire form of a row set: row_count and col_count as u32, then every
\* cell in row-major order.
EncodeRows(g) ==
    U32ToLe(Len(g.rows)) \o U32ToLe(g.ncols) \o EncodeAll(<<>>, Concat(g.rows))

\* The hit lists the far side is taken to send: (id, distance) pairs, the id
\* in the limbs of I64 with hi unsigned.
F32NineHalf == F32(0, 130, 1572864)
U64Max == [lo |-> 16777215, mid |-> 16777215, hi |-> 65535]
Hit(id, dist) == [id |-> id, dist |-> dist]
HitLists ==
    { <<>>,
      << Hit(I64(7), F32Eighth), Hit(I64(3), F32NineHalf) >>,
      << Hit(I64(3), F32NineHalf), Hit(I64(7), F32Eighth) >>,
      << Hit(U64Max, F32NaN) >>,
      << Hit(I64(1), F32One), Hit(I64(1), F32One), Hit(I64(0), F32NegInf) >> }

\* The wire form of a hit list: count as u32, then 12 bytes an entry.
EncodeHits(hs) ==
    U32ToLe(Len(hs))
        \o Concat([i \in 1..Len(hs) |-> I64ToLe(hs[i].id) \o F32ToLe(hs[i].dist)])

\* What an arbitrary hit buffer starts with: less than a count, a count of
\* none, one or two entries with eight or twelve bytes behind it, and a count
\* with its high byte set.
RawHits ==
    { <<>>, << 1, 0 >>, << 0, 0, 0, 0 >>, << 1, 0, 0, 0 >>, << 0, 0, 0, 128 >>,
      << 1, 0, 0, 0, 7, 0, 0, 0, 0, 0, 0, 0 >>,
      << 2, 0, 0, 0, 7, 0, 0, 0, 0, 0, 0, 0, 0, 0, 0, 62, 3, 0, 0, 0, 0, 0, 0, 0 >> }

\* The bytes arbitrary tails are made of: tags of short cells, small lengths,
\* and tags outside 0..9.
TailBytes == { 0, 1, 5, 10, 255 }

\* What an arbitrary row-set buffer starts with: nothing, or an 8-byte header
\* (small counts, and counts with high bytes set).  A header of many rows of
\* no cells is left out: the program builds that many empty rows.
RawHeaders ==
    { <<>> }
    \cup { U32ToLe(r) \o U32ToLe(c) : r \in 0..2, c \in 1..2 }
    \cup { << 1, 0, 0, 0, 0, 0, 0, 0 >>,
           << 2, 0, 0, 255, 1, 0, 0, 0 >>, << 1, 0, 0, 0, 1, 0, 0, 128 >> }

\* What an arbitrary cell starts with: a tag and a declared length.
RawCells ==
    { << 6, 1, 0, 0, 0 >>, << 3, 2, 0, 0, 0 >>, << 7, 1, 0, 0, 0 >>,
      << 4, 0, 0, 0, 8 >> }

\* The callers of the concurrent specification, and the Talon objects a run opens.
NumThreads == 2
MaxOpens == 2

\* The far side's addresses: as many as there are callers, each of which
\* holds one buffer at a time; an address is used again once it is freed.
Addrs == 1..NumThreads

\* The operations of a Talon object and its engines.
Ops ==
    { "run_sql", "run_sql_param", "kv_get", "kv_set", "kv_del", "vector_insert",
      "vector_search", "persist", "create_index", "index_doc", "delete_doc", "search",
      "vector_delete", "count", "database_stats", "health_check" }

\* An operation's arguments: a name (the SQL text, the key, the index), a
\* second text (the value, the metric, the document id, the query), a number
\* (the ttl, the id, the limit), SQL parameters, document fields.
Arg(name, aux, n, params, fields) ==
    [name |-> name, aux |-> aux, n |-> n, params |-> params, fields |-> fields]

TextSelect == << 83, 69, 76, 69, 67, 84, 32, 49 >>
TextNul == << 97, 0, 98 >>
TextOne == << 97, 32, 61, 32, 63 >>
TextQuoted == << 110, 32, 61, 32, 63, 32, 65, 78, 68, 32, 116, 32, 61, 32, 39, 120, 32, 63, 63, 32, 121, 39, 39, 39 >>
TextIts == << 105, 116, 39, 115 >>
TextIdx == << 105, 100, 120 >>
TextDoc == << 100, 49 >>
TextCosine == << 99, 111, 115, 105, 110, 101 >>
TextBody == << 98, 111, 100, 121 >>
TextNoIndex == << 110, 111, 32, 115, 117, 99, 104, 32, 105, 110, 100, 101, 120 >>

ParamLists ==
    { <<>>, << VText(TextIts) >>, << VNull, VInteger(I64(258)), VBoolean(TRUE) >>,
      << VText(<< 63 >>), VText(TextIts) >> }

Args(op) ==
    CASE op = "run_sql" -> { Arg(t, <<>>, 0, <<>>, <<>>) : t \in { TextSelect, TextNul } }
      [] op = "run_sql_param" ->
             { Arg(t, <<>>, 0, ps, <<>>) : t \in { TextOne, TextQuoted, TextNul },
                                           ps \in ParamLists }
      [] op \in {"kv_get", "kv_del"} ->
             { Arg(k, <<>>, 0, <<>>, <<>>) : k \in { << 107 >>, TextNul, <<>> } }
      [] op = "kv_set" ->
             { Arg(<< 107 >>, v, n, <<>>, <<>>) : v \in { <<>>, TextNul }, n \in { 0, 60 } }
      [] op = "vector_insert" ->
             { Arg(t, <<>>, 7, <<>>, <<>>) : t \in { TextIdx, TextNul } }
      [] op = "vector_search" ->
             { Arg(t, m, 3, <<>>, <<>>) : t \in { TextIdx, TextNul },
                                          m \in { TextCosine, TextNul } }
      [] op = "persist" -> { Arg(<<>>, <<>>, 0, <<>>, <<>>) }
      [] op = "index_doc" ->
             { Arg(t, TextDoc, 0, <<>>, f) :
                   t \in { TextIdx, TextNul },
                   f \in { <<>>, << << TextBody, TextNul >> >> } }
      [] op \in {"database_stats", "health_check"} -> { Arg(<<>>, <<>>, 0, <<>>, <<>>) }
      [] OTHER -> { Arg(t, TextDoc, 10, <<>>, <<>>) : t \in { TextIdx, TextNul } }

\* Row buffers the far side may hand back: well-formed ones, an empty one,
\* a truncated one, one with an unknown tag.
RowBufs ==
    { <<>>, << 1, 2, 3 >>, << 1, 0, 0, 0, 1, 0, 0, 0, 3, 9, 0, 0, 0 >>,
      << 1, 0, 0, 0, 1, 0, 0, 0, 10 >> }
    \cup { EncodeRows(g) : g \in Grids }

\* Hit buffers: too short, no hits, two hits, a count with too few entries.
HitBufs ==
    { <<>>, << 1, 0 >>, << 0, 0, 0, 0 >>,
      << 2, 0, 0, 0, 7, 0, 0, 0, 0, 0, 0, 0, 0, 0, 0, 62,
         3, 0, 0, 0, 0, 0, 0, 0, 0, 0, 24, 65 >>,
      << 2, 0, 0, 0, 7, 0, 0, 0, 0, 0, 0, 0, 0, 0, 0, 62 >> }

\* Stored values.
KvBufs == { <<>>, << 118 >>, << 0, 255 >> }

\* The data of a response: the hits of a search (a hit, an entry without a
\* score, an entry that is no object), and the count and deleted fields.
HitsData ==
    JObj(JsonObject(<< << Str.hits, JArr(<< JObj(JsonObject(<< << Str.doc_id, JStr(TextDoc) >>,
                                                              << Str.score, JNum(2) >> >>)),
                                           JObj(JsonObject(<< << Str.doc_id, JNum(1) >> >>)),
                                           JNum(5) >>) >> >>))

FlagsData ==
    JObj(JsonObject(<< << Str.count, JNum(3) >>, << Str.deleted, JBool(TRUE) >> >>))

DataDocs == { HitsData, FlagsData }

\* Responses of talon_execute: ok with and without data, failures with and
\* without an error string or with data, an ok that is not the boolean true,
\* data of the wrong shape, and texts that are no object or no JSON.
ResponseDocs ==
    { JObj(JsonObject(<< << Str.ok, JBool(TRUE) >> >>)),
      JObj(JsonObject(<< << Str.ok, JBool(FALSE) >>, << Str.error, JStr(TextNoIndex) >> >>)),
      JObj(JsonObject(<< << Str.ok, JBool(FALSE) >> >>)),
      JObj(JsonObject(<< << Str.ok, JBool(TRUE) >>,
                         << Str.data, JObj(JsonObject(<< << Str.hits, JStr(TextDoc) >>,
                                                        << Str.count, JNum(-1) >>,
                                                        << Str.deleted, JNull >> >>)) >> >>)),
      JObj(JsonObject(<< << Str.ok, JBool(TRUE) >>, << Str.data, JArr(<< JNum(1) >>) >> >>)),
      JObj(<<>>),
      JArr(<< JBool(TRUE) >>) }
    \cup { JObj(JsonObject(<< << Str.ok, JBool(TRUE) >>, << Str.data, d >> >>)) : d \in DataDocs }
    \cup { JObj(JsonObject(<< << Str.ok, JBool(FALSE) >>, << Str.error, JNum(7) >>,
                              << Str.data, d >> >>)) : d \in DataDocs }
    \cup { JObj(JsonObject(<< << Str.ok, JStr(<< 116, 114, 117, 101 >>) >>,
                              << Str.data, d >> >>)) : d \in DataDocs }

ResponseTexts ==
    { JsonToString(d) : d \in ResponseDocs } \cup { <<>>, << 123 >>, << 255 >> }

\* What the far side may put behind the out pointer of an operation.
Outs(op) ==
    CASE OpKind(op) = "rows" -> RowBufs
      [] OpKind(op) = "hits" -> HitBufs
      [] OpKind(op) = "kv" -> KvBufs
      [] OpKind(op) = "execute" -> ResponseTexts
      [] OTHER -> {}

\* The paths a database is opened at.
Paths == { << 47, 100, 98 >>, TextNul }

\* The concurrent specification: the operations that are handed a buffer,
\* one argument each, and a call that fails, returns null, or hands back one
\* buffer with status 0.
ConcOps == { "run_sql", "vector_search", "kv_get", "count" }
ConcArgs(op) ==
    CASE op = "vector_search" -> { Arg(TextIdx, TextCosine, 3, <<>>, <<>>) }
      [] op = "kv_get" -> { Arg(<< 107 >>, <<>>, 0, <<>>, <<>>) }
      [] op = "count" -> { Arg(TextIdx, <<>>, 0, <<>>, <<>>) }
      [] OTHER -> { Arg(TextSelect, <<>>, 0, <<>>, <<>>) }
ConcOuts(op) ==
    CASE OpKind(op) = "rows" -> { << 1, 0, 0, 0, 1, 0, 0, 0, 0 >> }
      [] OpKind(op) = "hits" -> { << 0, 0, 0, 0 >> }
      [] OpKind(op) = "kv" -> { << 118 >> }
      [] OTHER -> { JsonToString(JObj(JsonObject(<< << Str.ok, JBool(TRUE) >>,
                                                     << Str.data, FlagsData >> >>))) }


\* ---------------------------------------------------------------- state

VARIABLES
    data,     \* the buffer under decode
    src,      \* where it came from: a value, a row set, arbitrary bytes
    dec,      \* the last decode of it and its result
    talon,    \* the Talon object: absent, or holding a handle
    far,      \* the far side: its handles and the calls it has seen
    heap,     \* the far side's allocations, by address
    th        \* each caller: where it is in its operation, and its locals

codecVars == << data, src, dec >>
ffiVars == << talon, far, heap, th >>
vars == << data, src, dec, talon, far, heap, th >>


\* -------------------------------------------------- the codec, applied
\* The pure functions of the codec applied to buffers: the encoding of a
\* value, the wire form of a row set, a truncation of either, or arbitrary
\* bytes.

\* No Talon object; the far side before any call; no allocation.
NoTalon == [state |-> "none", handle |-> 0, err |-> "none", path |-> <<>>, calls |-> 0]
FarInit == [opens |-> 0, issued |-> 0, closed |-> <<>>, stale |-> FALSE]
NoCell == [live |-> FALSE, owner |-> 0, kind |-> "none", bytes |-> <<>>]

\* A caller between operations.
Idle ==
    [pc |-> "idle", op |-> "none", arg |-> Arg(<<>>, <<>>, 0, <<>>, <<>>), calls |-> 0,
     sent |-> <<>>, rc |-> 0, ptr |-> 0, len |-> 0, copy |-> <<>>, log |-> <<>>,
     result |-> NoResult]

FfiInit(callers) ==
    /\ talon = NoTalon
    /\ far = FarInit
    /\ heap = [a \in Addrs |-> NoCell]
    /\ th = [t \in callers |-> Idle]

CodecInit ==
    /\ data = <<>>
    /\ src = [kind |-> "none"]
    /\ dec = [op |-> "none"]
    /\ FfiInit({1})

\* encode_value on an empty buffer.
TakeValue(v) ==
    /\ src.kind = "none"
    /\ data' = encode_value(<<>>, v)
    /\ src' = [kind |-> "value", v |-> v, cut |-> FALSE]
    /\ UNCHANGED << dec, ffiVars >>

\* A row set as the far side sends it.
TakeRows(g) ==
    /\ src.kind = "none"
    /\ data' = EncodeRows(g)
    /\ src' = [kind |-> "rows", g |-> g, cut |-> FALSE]
    /\ UNCHANGED << dec, ffiVars >>

\* A hit list as the far side sends it.
TakeHits(hs) ==
    /\ src.kind = "none"
    /\ data' = EncodeHits(hs)
    /\ src' = [kind |-> "hits", hs |-> hs, cut |-> FALSE]
    /\ UNCHANGED << dec, ffiVars >>

\* The first k bytes of a well-formed buffer, k less than its length.
Truncate(k) ==
    /\ src.kind \in {"value", "rows", "hits"}
    /\ ~src.cut
    /\ dec.op = "none"
    /\ k < Len(data)
    /\ data' = SubSeq(data, 1, k)
    /\ src' = [src EXCEPT !.cut = TRUE]
    /\ UNCHANGED << dec, ffiVars >>

\* Arbitrary bytes: a prefix ...
TakeRaw(p, kind) ==
    /\ src.kind = "none"
    /\ data' = p
    /\ src' = [kind |-> kind, base |-> Len(p)]
    /\ UNCHANGED << dec, ffiVars >>

\* ... and a tail, byte by byte.
AppendByte(b) ==
    /\ src.kind \in {"raw", "rawcell", "rawhits"}
    /\ dec.op = "none"
    /\ Len(data) - src.base < MaxTail
    /\ data' = Append(data, b)
    /\ UNCHANGED << src, dec, ffiVars >>

\* decode_value(data, pos), at any position up to the end.
DecodeValueAt(pos) ==
    /\ src.kind # "none"
    /\ dec.op = "none"
    /\ pos <= Len(data)
    /\ dec' = [op |-> "decode_value", pos |-> pos, r |-> decode_value(data, pos)]
    /\ UNCHANGED << data, src, ffiVars >>

\* decode_rows_bin(data).
DecodeRows ==
    /\ src.kind \in {"rows", "raw"}
    /\ dec.op = "none"
    /\ dec' = [op |-> "decode_rows_bin", pos |-> 0, r |-> decode_rows_bin(data)]
    /\ UNCHANGED << data, src, ffiVars >>

\* decode_vector_bin(data).
DecodeVectorBin ==
    /\ src.kind \in {"hits", "rawhits", "raw"}
    /\ dec.op = "none"
    /\ dec' = [op |-> "decode_vector_bin", pos |-> 0, r |-> decode_vector_bin(data)]
    /\ UNCHANGED << data, src, ffiVars >>

\* run_sql's handling of a boundary result: status rc, pointer ptr (0 is null)
\* and, behind a non-null pointer, the bytes of data.
RunSqlOn(rc, ptr) ==
    /\ src.kind \in {"rows", "raw"}
    /\ dec.op = "none"
    /\ dec' = [op |-> "run_sql", pos |-> 0, rc |-> rc, ptr |-> ptr,
               r |-> RunSqlResult(rc, ptr, IF ptr = 0 THEN <<>> ELSE data)]
    /\ UNCHANGED << data, src, ffiVars >>

CodecNext ==
    \/ \E v \in Values : TakeValue(v)
    \/ \E g \in Grids : TakeRows(g)
    \/ \E k \in 0..Len(data) : Truncate(k)
    \/ \E p \in RawHeaders : TakeRaw(p, "raw")
    \/ \E p \in RawCells : TakeRaw(p, "rawcell")
    \/ \E hs \in HitLists : TakeHits(hs)
    \/ \E p \in RawHits : TakeRaw(p, "rawhits")
    \/ \E b \in TailBytes : AppendByte(b)
    \/ \E pos \in 0..Len(data) : DecodeValueAt(pos)
    \/ DecodeRows
    \/ DecodeVectorBin
    \/ \E rc \in {0, 1}, ptr \in {0, 1} : RunSqlOn(rc, ptr)

CodecSpec == CodecInit /\ [][CodecNext]_vars


\* ------------------------------------------------- the boundary, in steps
\* An operation of a caller t runs in steps: it makes its call (Invoke), the
\* call returns and the operation tests what it got (Returns), it reads the
\* buffer (Read), frees it (Free), and returns to its caller (Return).

\* Talon::open(path): the path as a C string, talon_open, and the test of the
\* handle; h is what talon_open returns, 0 for null.  calls counts the
\* talon_open calls of this open.
Open(path, h) ==
    /\ talon.state # "open"
    /\ far.opens < MaxOpens
    /\ IF HasNul(path)
       THEN /\ talon' = [NoTalon EXCEPT !.state = "failed", !.err = "NUL byte in string",
                                         !.path = path]
            /\ far' = far
       ELSE /\ talon' = IF h = 0
                        THEN [NoTalon EXCEPT !.state = "failed", !.err = "Failed to open",
                                             !.path = path, !.calls = 1]
                        ELSE [NoTalon EXCEPT !.state = "open", !.handle = far.issued + 1,
                                             !.path = path, !.calls = 1]
            /\ far' = [far EXCEPT !.opens = @ + 1,
                                  !.issued = IF h = 0 THEN @ ELSE @ + 1]
    /\ UNCHANGED << codecVars, heap, th >>

\* Drop for Talon, when the object goes out of scope: no operation borrows it.
Drop ==
    /\ talon.state = "open"
    /\ \A t \in DOMAIN th : th[t].pc = "idle"
    /\ far' = [far EXCEPT !.closed = @ \o CloseCalls(talon.handle)]
    /\ talon' = [NoTalon EXCEPT !.state = "dropped"]
    /\ UNCHANGED << codecVars, heap, th >>

\* The start of an operation: its strings become C strings, and it makes its
\* boundary call with the handle; or one of them holds a nul byte and it
\* returns the error.
Invoke(t, op, arg) ==
    /\ talon.state = "open"
    /\ th[t].pc = "idle"
    /\ IF \E i \in 1..Len(CTexts(op, arg)) : HasNul(CTexts(op, arg)[i])
       THEN /\ th' = [th EXCEPT ![t] = [Idle EXCEPT !.pc = "done", !.op = op, !.arg = arg,
                                                    !.result = NulResult(op)]]
            /\ far' = far
       ELSE /\ th' = [th EXCEPT ![t] = [Idle EXCEPT !.pc = "call", !.op = op, !.arg = arg,
                                                    !.calls = 1,
                                                    !.sent = Sent(op, arg, talon.handle)]]
            /\ far' = [far EXCEPT !.stale = @ \/ (\E i \in 1..Len(far.closed) :
                                                      far.closed[i] = talon.handle)]
    /\ UNCHANGED << codecVars, talon, heap >>

\* The boundary call returns status rc and, at address a (0 for null), a
\* buffer of the given bytes; the operation tests them.
Returns(t, rc, a, bytes) ==
    /\ th[t].pc = "call"
    /\ a = 0 => bytes = <<>>
    /\ a # 0 => ~heap[a].live
    /\ heap' = IF a = 0 THEN heap
               ELSE [heap EXCEPT ![a] = [live |-> TRUE, owner |-> t,
                                         kind |-> FreeFn(th[t].op), bytes |-> bytes]]
    /\ th' = [th EXCEPT ![t].rc = rc, ![t].ptr = a, ![t].len = Len(bytes),
                        ![t].result = AfterCall(th[t].op, rc, a, Len(bytes)),
                        ![t].pc = IF AfterCall(th[t].op, rc, a, Len(bytes)) = NoResult
                                  THEN NextStep("call") ELSE "done"]
    /\ UNCHANGED << codecVars, talon, far >>

\* An access of caller t to the buffer at its pointer: whether the buffer is
\* allocated and is the one t's call handed back.
Access(t, ev) ==
    [ev |-> ev, ptr |-> th[t].ptr, fn |-> IF ev = "free" THEN FreeFn(th[t].op) ELSE "none",
     own |-> heap[th[t].ptr].live /\ heap[th[t].ptr].owner = t,
     kind |-> heap[th[t].ptr].kind]

\* The operation reads the bytes behind its pointer: it decodes them, or
\* copies them into an owned value.  A decode that panics unwinds.
Read(t) ==
    /\ th[t].pc = "read"
    /\ th' = [th EXCEPT ![t].result = ReadResult(th[t].op, heap[th[t].ptr].bytes),
                        ![t].copy = ReadCopy(th[t].op, heap[th[t].ptr].bytes),
                        ![t].log = Append(@, Access(t, "read")),
                        ![t].pc = IF ReadResult(th[t].op, heap[th[t].ptr].bytes) = RPanic
                                  THEN "done" ELSE NextStep("read")]
    /\ UNCHANGED << codecVars, talon, far, heap >>

\* talon_free_bytes or talon_free_string on the pointer, and what follows it:
\* the parse of the copied response.
Free(t) ==
    /\ th[t].pc = "free"
    /\ heap' = [heap EXCEPT ![th[t].ptr].live = FALSE]
    /\ th' = [th EXCEPT ![t].result = Finish(th[t].op, th[t].copy, th[t].result),
                        ![t].log = Append(@, Access(t, "free")),
                        ![t].pc = NextStep("free")]
    /\ UNCHANGED << codecVars, talon, far >>

\* The operation returns to its caller.  With it ends the account of its
\* buffer: one it did not free stays allocated, at an address the model no
\* longer counts.
Return(t) ==
    /\ th[t].pc = "done"
    /\ th' = [th EXCEPT ![t] = Idle]
    /\ heap' = [a \in Addrs |-> IF heap[a].owner = t THEN NoCell ELSE heap[a]]
    /\ UNCHANGED << codecVars, talon, far >>

\* One caller, every operation, every outcome of the boundary.
Init ==
    /\ data = <<>>
    /\ src = [kind |-> "none"]
    /\ dec = [op |-> "none"]
    /\ FfiInit({1})

Next ==
    \/ \E path \in Paths, h \in {0, 1} : Open(path, h)
    \/ Drop
    \/ \E t \in DOMAIN th, op \in Ops : \E arg \in Args(op) : Invoke(t, op, arg)
    \/ \E t \in DOMAIN th, rc \in {0, 1}, a \in {0} \cup Addrs :
           \E bytes \in Outs(th[t].op) \cup { <<>> } : Returns(t, rc, a, bytes)
    \/ \E t \in DOMAIN th : Read(t)
    \/ \E t \in DOMAIN th : Free(t)
    \/ \E t \in DOMAIN th : Return(t)

Spec == Init /\ [][Next]_vars

\* Several callers on one Talon object, opened before they start.
ConcInit ==
    /\ data = <<>>
    /\ src = [kind |-> "none"]
    /\ dec = [op |-> "none"]
    /\ talon = [NoTalon EXCEPT !.state = "open", !.handle = 1, !.path = << 47, 100, 98 >>,
                                !.calls = 1]
    /\ far = [FarInit EXCEPT !.opens = 1, !.issued = 1]
    /\ heap = [a \in Addrs |-> NoCell]
    /\ th = [t \in 1..NumThreads |-> Idle]

ConcNext ==
    \/ Drop
    \/ \E t \in DOMAIN th, op \in ConcOps : \E arg \in ConcArgs(op) : Invoke(t, op, arg)
    \/ \E t \in DOMAIN th, rc \in {0, 1}, a \in {0} \cup Addrs :
           \E bytes \in ConcOuts(th[t].op) \cup { <<>> } :
               (a # 0 => rc = 0 /\ bytes # <<>>) /\ Returns(t, rc, a, bytes)
    \/ \E t \in DOMAIN th : Read(t)
    \/ \E t \in DOMAIN th : Free(t)
    \/ \E t \in DOMAIN th : Return(t)

ConcSpec == ConcInit /\ [][ConcNext]_vars



\* ------------------------------------------------------ codec properties

\* Whether a float payload of v is a NaN.
HasNaN(v) ==
    CASE v.tag = 2 -> F64IsNaN(v.f)
      [] v.tag = 7 -> \E k \in 1..Len(v.v) : F32IsNaN(v.v[k])
      [] v.tag = 9 -> F64IsNaN(v.lat) \/ F64IsNaN(v.lon)
      [] OTHER -> FALSE

\* The encoding of a value, whole, decoded at position 0.
RoundTripDone ==
    /\ src.kind = "value"
    /\ ~src.cut
    /\ dec.op = "decode_value"
    /\ dec.pos = 0

C2_TruncationSafety ==
    /\ (src.kind = "value" /\ src.cut /\ dec.op = "decode_value" /\ dec.pos = 0)
           => dec.r.kind = "err"
    /\ (src.kind = "rows" /\ src.cut /\ dec.op = "decode_rows_bin")
           => dec.r.kind = "err"
    /\ (src.kind \in {"value", "rows"} /\ src.cut /\ dec.op # "none")
           => dec.r.kind # "panic" /\ dec.r.top <= Len(data)

C2_Witness ==
    /\ src.kind = "rows"
    /\ src.cut
    /\ dec.op = "decode_rows_bin"
    /\ dec.r.kind = "err"
    /\ dec.r.msg = "truncated text data"
    /\ dec.r.top = Len(data)

\* The first n values of the cell stream that starts at pos, decoded one
\* after the other.
RECURSIVE CellStream(_, _, _)
CellStream(bytes, pos, n) ==
    IF n = 0 THEN <<>>
    ELSE LET d == decode_value(bytes, pos) IN
         IF d.kind # "ok" THEN <<>>
         ELSE << d.val >> \o CellStream(bytes, pos + d.consumed, n - 1)

\* C9: when decode_rows_bin succeeds the result has row_count rows of
\* col_count cells each, the counts being the two u32 of the header, and the
\* cell at row r, column c is value number r * col_count + c of the cell
\* stream that starts at byte 8.
C9_RowSetFraming ==
    (dec.op = "decode_rows_bin" /\ dec.r.kind = "ok") =>
        LET row_count == U32FromLe(Slice(data, 0, 4))
            col_count == U32FromLe(Slice(data, 4, 8))
            cells == CellStream(data, 8, row_count * col_count)
        IN  /\ Len(dec.r.rows) = row_count
            /\ Len(cells) = row_count * col_count
            /\ \A r \in 1..row_count :
                   /\ Len(dec.r.rows[r]) = col_count
                   /\ \A c \in 1..col_count :
                          dec.r.rows[r][c] = cells[(r - 1) * col_count + c]

C9_Witness ==
    /\ src.kind = "rows"
    /\ ~src.cut
    /\ dec.op = "decode_rows_bin"
    /\ dec.r.kind = "ok"
    /\ Len(dec.r.rows) = 3
    /\ dec.r.rows = src.g.rows
    /\ dec.r.pos = Len(data)

\* Whether the walk of n cells from pos comes to a tag byte outside 0..9.
RECURSIVE MeetsUnknownTag(_, _, _)
MeetsUnknownTag(bytes, pos, n) ==
    IF n = 0 \/ pos >= Len(bytes) THEN FALSE
    ELSE IF At(bytes, pos) > 9 THEN TRUE
    ELSE LET d == decode_value(bytes, pos) IN
         d.kind = "ok" /\ MeetsUnknownTag(bytes, pos + d.consumed, n - 1)

\* C10: decode_value at a position whose tag byte is outside 0..9 returns the
\* unknown-tag error, whatever follows; a row set whose cell walk meets such
\* a tag fails as a whole with that error.
C10_UnknownTag ==
    /\ (dec.op = "decode_value" /\ dec.pos < Len(data) /\ At(data, dec.pos) > 9)
           => /\ dec.r.kind = "err"
              /\ dec.r.msg = "unknown binary type tag"
              /\ dec.r.tag = At(data, dec.pos)
    /\ (/\ dec.op = "decode_rows_bin"
        /\ Len(data) >= 8
        /\ MeetsUnknownTag(data, 8, U32FromLe(Slice(data, 0, 4))
                                    * U32FromLe(Slice(data, 4, 8))))
           => dec.r.kind = "err" /\ dec.r.msg = "unknown binary type tag"

C10_Witness ==
    /\ dec.op = "decode_rows_bin"
    /\ Len(data) = 12
    /\ At(data, 8) = 5
    /\ At(data, 10) = 255
    /\ dec.r.kind = "err"
    /\ dec.r.msg = "unknown binary type tag"
    /\ dec.r.tag = 255



\* The entry i (0-based) of a hit buffer: bytes 4+12i .. 4+12i+12.
EntryAt(b, i) ==
    [id |-> U64FromLe(SubSeq(b, 5 + 12 * i, 12 + 12 * i)),
     dist |-> F32FromLe(SubSeq(b, 13 + 12 * i, 16 + 12 * i))]

\* C11: decode_vector_bin fails on a buffer shorter than 4 bytes and on one
\* with fewer than count*12 bytes after the 4-byte little-endian count;
\* otherwise it returns exactly count pairs, pair i read from bytes 4+12i ..
\* 4+12i+12, in the order of the buffer: a hit list the far side encoded comes
\* back the same, pair by pair.
C11_VectorHitDecode ==
    dec.op = "decode_vector_bin" =>
        IF Len(data) < 4
        THEN dec.r.kind = "err" /\ dec.r.msg = "vector binary result too short"
        ELSE IF Len(data) - 4 < 12 * U32FromLe(SubSeq(data, 1, 4))
        THEN dec.r.kind = "err" /\ dec.r.msg = "vector binary result truncated"
        ELSE /\ dec.r.kind = "ok"
             /\ Len(dec.r.hits) = U32FromLe(SubSeq(data, 1, 4))
             /\ \A i \in 1..Len(dec.r.hits) : dec.r.hits[i] = EntryAt(data, i - 1)
             /\ (src.kind = "hits" /\ ~src.cut) => dec.r.hits = src.hs

\* The hit list (7, 0.125), (3, 9.5) decoded in that order.
C11_Witness ==
    /\ dec.op = "decode_vector_bin"
    /\ src.kind = "hits"
    /\ ~src.cut
    /\ dec.r.kind = "ok"
    /\ dec.r.hits = << Hit(I64(7), F32Eighth), Hit(I64(3), F32NineHalf) >>


\* --------------------------------------------------- boundary properties

\* C3 as stated: a zero-length or null result buffer decodes to an empty row
\* set and not to an error, both inside run_sql and when a zero-length buffer
\* is handed to decode_rows_bin.
C3_EmptyDecodesEmpty ==
    /\ (dec.op = "run_sql" /\ dec.rc = 0 /\ (dec.ptr = 0 \/ Len(data) = 0)) =>
           (dec.r.kind = "ok" /\ dec.r.rows = <<>>)
    /\ (dec.op = "decode_rows_bin" /\ Len(data) = 0) =>
           (dec.r.kind = "ok" /\ dec.r.rows = <<>>)

\* C3 as amended: run_sql answers a null or zero-length result of a call
\* with status 0 by an empty row set; decode_rows_bin, handed a buffer
\* shorter than the 8-byte header (a zero-length one among them), returns the
\* error "binary result too short".
C3_EmptyResult ==
    /\ (dec.op = "run_sql" /\ dec.rc = 0 /\ (dec.ptr = 0 \/ Len(data) = 0)) =>
           (dec.r.kind = "ok" /\ dec.r.rows = <<>>)
    /\ (dec.op = "decode_rows_bin" /\ Len(data) < 8) =>
           (dec.r.kind = "err" /\ dec.r.msg = "binary result too short")

C3_Witness ==
    /\ dec.op = "run_sql"
    /\ dec.rc = 0
    /\ dec.ptr # 0
    /\ data = <<>>
    /\ dec.r.kind = "ok"

\* The envelope operations that return a Result.
EnvelopeOps ==
    { "create_index", "index_doc", "delete_doc", "search", "vector_delete", "count",
      "database_stats" }

\* Whether caller t has finished an envelope operation whose response parsed.
GotResponse(t) ==
    /\ th[t].pc = "done"
    /\ th[t].op \in EnvelopeOps
    /\ th[t].rc = 0
    /\ th[t].ptr # 0
    /\ JsonFromStr(th[t].copy).ok

\* C4: an envelope operation whose response's "ok" is not the boolean true
\* returns an error that carries the response's "error" string, or the
\* placeholder when there is none; it never returns a success value.
C4_EnvelopeFailure ==
    \A t \in DOMAIN th :
        (GotResponse(t) /\ ~IsTrue(JGet(JsonFromStr(th[t].copy).v, Str.ok))) =>
            th[t].result = RErrText(ErrorText(JGet(JsonFromStr(th[t].copy).v, Str.error)))

\* The free calls of caller t's operation.
FreesOf(t) == SelectSeq(th[t].log, LAMBDA e : e.ev = "free")

\* C5: when an operation returns, the non-null buffer or string its call
\* handed back has been released exactly once, through the free function of
\* its kind; none is released twice, none is left unreleased.
C5_ExactlyOnceRelease ==
    \A t \in DOMAIN th :
        /\ Len(FreesOf(t)) <= 1
        /\ (th[t].pc = "done" /\ th[t].ptr # 0) =>
               /\ Len(FreesOf(t)) = 1
               /\ FreesOf(t)[1].ptr = th[t].ptr
               /\ FreesOf(t)[1].own
               /\ FreesOf(t)[1].fn = FreesOf(t)[1].kind

\* C6: every read and every free of a buffer is made by the operation whose
\* call handed it back, while it is allocated; no read follows the free; and
\* an allocated buffer is held by exactly the operation that received it.
C6_BufferOwnership ==
    /\ \A t \in DOMAIN th :
           \A i \in 1..Len(th[t].log) :
               /\ th[t].log[i].own
               /\ th[t].log[i].ptr = th[t].ptr
               /\ th[t].log[i].ev = "free" => \A j \in (i + 1)..Len(th[t].log) : FALSE
    /\ \A a \in Addrs :
           heap[a].live => /\ th[heap[a].owner].ptr = a
                           /\ th[heap[a].owner].pc \in {"read", "free", "done"}
    /\ \A t1, t2 \in DOMAIN th :
           (t1 # t2 /\ th[t1].pc \in {"read", "free"} /\ th[t2].pc \in {"read", "free"}) =>
               th[t1].ptr # th[t2].ptr

\* Two callers, one that has read and freed its buffer and not yet returned,
\* the other handed the same address since and about to free it.
C6_Witness ==
    \E t1, t2 \in DOMAIN th :
        /\ t1 # t2
        /\ th[t1].pc = "done"
        /\ Len(th[t1].log) = 2
        /\ th[t2].pc = "free"
        /\ th[t2].ptr = th[t1].ptr

\* How often handle h was closed.
Closes(h) == Cardinality({ i \in 1..Len(far.closed) : far.closed[i] = h })

\* C7: every handle talon_open returned is closed exactly once, when its
\* Talon object is dropped and not before; no boundary call is made with a
\* closed handle; a failed open closes nothing.
C7_HandleLifetime ==
    /\ \A h \in 1..far.issued :
           Closes(h) = IF talon.state = "open" /\ talon.handle = h THEN 0 ELSE 1
    /\ Len(far.closed) <= far.issued
    /\ talon.state = "open" => talon.handle = far.issued
    /\ talon.state # "open" => talon.handle = 0
    /\ ~far.stale
    /\ \A t \in DOMAIN th :
           th[t].calls = 1 => (th[t].sent.handle # 0 /\ Closes(th[t].sent.handle) = 0)

\* Two Talon objects opened and dropped one after the other, each handle
\* closed once.
C7_Witness ==
    /\ talon.state = "dropped"
    /\ far.closed = << 1, 2 >>

\* The SQL literal of a value, for the variants the model binds: NULL, a
\* small integer in decimal, a text in single quotes with each quote doubled,
\* a boolean as 1 or 0.
RECURSIVE DoubleQuotes(_)
DoubleQuotes(s) ==
    IF s = <<>> THEN <<>>
    ELSE (IF Head(s) = 39 THEN << 39, 39 >> ELSE << Head(s) >>) \o DoubleQuotes(Tail(s))
SqlLiteral(v) ==
    CASE v.tag = 1 -> Digits(v.i.lo)
      [] v.tag = 3 -> << 39 >> \o DoubleQuotes(v.s) \o << 39 >>
      [] v.tag = 5 -> IF v.bool THEN << 49 >> ELSE << 48 >>
      [] OTHER -> << 78, 85, 76, 76 >>

\* The textual binding of section 4.3: each '?' outside a quoted literal
\* replaced by the literal of the next value, quoted literals copied.
RECURSIVE BindFrom(_, _, _, _, _)
BindFrom(sql, i, quoted, params, out) ==
    IF i > Len(sql) THEN out
    ELSE IF quoted
         THEN IF sql[i] = 39 /\ i < Len(sql) /\ sql[i + 1] = 39
              THEN BindFrom(sql, i + 2, TRUE, params, out \o << 39, 39 >>)
              ELSE BindFrom(sql, i + 1, sql[i] # 39, params, Append(out, sql[i]))
    ELSE IF sql[i] = 63 /\ params # <<>>
         THEN BindFrom(sql, i + 1, FALSE, Tail(params), out \o SqlLiteral(Head(params)))
    ELSE BindFrom(sql, i + 1, sql[i] = 39, params, Append(out, sql[i]))
BindSql(sql, params) == BindFrom(sql, 1, FALSE, params, <<>>)

\* Whether caller t has made the call of a run_sql_param.
BoundCall(t) == th[t].op = "run_sql_param" /\ th[t].calls = 1

\* C8 as stated: the query the program produces for a template and a list of
\* values is the template with each un-quoted '?' replaced by the SQL literal
\* of the next value, quoted literals copied verbatim.
C8_TextualBinding ==
    \A t \in DOMAIN th :
        BoundCall(t) => th[t].sent.text = BindSql(th[t].arg.name, th[t].arg.params)

\* C8 as amended: run_sql_param substitutes nothing.  It hands the boundary
\* the template as written and, beside it, the values in binary: their count
\* as a u32, then each value's encoding in order, from which decode_value
\* reads the same values back.
C8_NativeBinding ==
    \A t \in DOMAIN th :
        BoundCall(t) =>
            /\ th[t].sent.text = th[t].arg.name
            /\ Len(th[t].sent.params) >= 4
            /\ SubSeq(th[t].sent.params, 1, 4) = U32ToLe(Len(th[t].arg.params))
            /\ CellStream(th[t].sent.params, 4, Len(th[t].arg.params)) = th[t].arg.params

\* The example of the claim: the text it's bound into a template with one
\* un-quoted '?' and a quoted literal that holds '?' and a doubled quote.
C8_Witness ==
    \E t \in DOMAIN th :
        /\ BoundCall(t)
        /\ th[t].arg.name = TextQuoted
        /\ th[t].arg.params = << VText(TextIts) >>
        /\ BindSql(th[t].arg.name, th[t].arg.params)
               = << 110, 32, 61, 32, 39, 105, 116, 39, 39, 115, 39, 32, 65, 78, 68, 32, 116, 32, 61, 32, 39, 120, 32, 63, 63, 32, 121, 39, 39, 39 >>

\* The values of the member k of a JSON value: one when v is an object that
\* has it, none otherwise.
Member(v, k) ==
    IF v.t = "obj" /\ \E i \in DOMAIN v.o : v.o[i][1] = k
    THEN << v.o[CHOOSE i \in DOMAIN v.o : v.o[i][1] = k][2] >>
    ELSE <<>>

\* The values of data.k of a response.
DataMember(resp, k) ==
    IF Member(resp, Str.data) = <<>> THEN <<>> ELSE Member(Member(resp, Str.data)[1], k)

\* The response caller t's envelope operation parsed.
ResponseOf(t) == JsonFromStr(th[t].copy).v

\* C12: on a parsed response with no data, no data.hits, or a data.hits that
\* is no array, search returns an empty hit list and not an error; with a
\* missing data.count, or one that is no unsigned integer, count returns 0;
\* with a missing data.deleted, delete_doc returns false.
C12_EnvelopeDegradation ==
    \A t \in DOMAIN th :
        GotResponse(t) =>
            /\ (/\ th[t].op = "search"
                /\ \/ DataMember(ResponseOf(t), Str.hits) = <<>>
                   \/ DataMember(ResponseOf(t), Str.hits)[1].t # "arr")
                   => th[t].result = [kind |-> "ok", val |-> <<>>]
            /\ (/\ th[t].op = "count"
                /\ \/ DataMember(ResponseOf(t), Str.count) = <<>>
                   \/ DataMember(ResponseOf(t), Str.count)[1].t # "num"
                   \/ DataMember(ResponseOf(t), Str.count)[1].n < 0)
                   => th[t].result = [kind |-> "ok", val |-> 0]
            /\ (/\ th[t].op = "delete_doc"
                /\ DataMember(ResponseOf(t), Str.deleted) = <<>>)
                   => th[t].result = [kind |-> "ok", val |-> FALSE]

\* A search answered by a response whose data.hits is a string.
C12_Witness ==
    \E t \in DOMAIN th :
        /\ GotResponse(t)
        /\ th[t].op = "search"
        /\ DataMember(ResponseOf(t), Str.hits) # <<>>
        /\ DataMember(ResponseOf(t), Str.hits)[1].t = "str"
        /\ th[t].result = [kind |-> "ok", val |-> <<>>]

\* Whether the boundary call of caller t's operation has returned a non-zero
\* status.
CallFailed(t) == th[t].pc \in {"read", "free", "done"} /\ th[t].calls = 1 /\ th[t].rc # 0

\* The boundary calls caller t's operation has made: its call, and the free
\* calls on the buffer.
BoundaryCalls(t) == th[t].calls + Len(FreesOf(t))

\* C13: an operation whose boundary call returned a non-zero status makes no
\* further boundary call (no second attempt, no read or free of a buffer):
\* that call is the one boundary call of the invocation; and it reports the
\* failure to its caller, as an error, or, in health_check, which returns no
\* Result, as the value {"status": "error"}.  No operation makes its call
\* twice.
C13_NoRetry ==
    \A t \in DOMAIN th :
        /\ th[t].calls <= 1
        /\ CallFailed(t) =>
               /\ th[t].pc = "done"
               /\ th[t].log = <<>>
               /\ BoundaryCalls(t) = 1
               /\ IF th[t].op = "health_check"
                  THEN th[t].result
                           = [kind |-> "value",
                              val |-> JObj(<< << Str.status, JStr(Str.error) >> >>)]
                  ELSE th[t].result.kind = "err"

\* persist, its call returned with status 1, reporting the error.
C13_Witness ==
    \E t \in DOMAIN th :
        /\ CallFailed(t)
        /\ th[t].op = "persist"
        /\ th[t].rc = 1
        /\ th[t].result = [kind |-> "err", msg |-> "persist FFI failed"]

\* Whether caller t's kv get has returned, its call having returned status 0.
KvGetDone(t) ==
    th[t].pc = "done" /\ th[t].op = "kv_get" /\ th[t].calls = 1 /\ th[t].rc = 0

\* C14: a kv get whose call returned status 0 with a null pointer returns
\* Ok(None), having read nothing and freed nothing; with a non-null pointer
\* it returns Ok(Some(v)), v the bytes behind the pointer, of length 0 too.
C14_NullMeansAbsent ==
    \A t \in DOMAIN th :
        KvGetDone(t) =>
            IF th[t].ptr = 0
            THEN /\ th[t].result = [kind |-> "ok", val |-> [some |-> FALSE]]
                 /\ th[t].log = <<>>
            ELSE /\ th[t].result.kind = "ok"
                 /\ th[t].result.val.some
                 /\ th[t].result.val.v = heap[th[t].ptr].bytes
                 /\ Len(th[t].result.val.v) = th[t].len

\* A kv get handed a null pointer with status 0, returning Ok(None).
C14_Witness ==
    \E t \in DOMAIN th :
        /\ KvGetDone(t)
        /\ th[t].ptr = 0
        /\ th[t].log = <<>>
        /\ th[t].result = [kind |-> "ok", val |-> [some |-> FALSE]]

\* Whether a text that operation op hands the boundary as a C string holds a
\* nul byte: the SQL text, the index name, the metric name, the command JSON.
NulCrosses(op, arg) ==
    CASE op \in {"run_sql", "run_sql_param", "vector_insert"} -> HasNul(arg.name)
      [] op = "vector_search" -> HasNul(arg.name) \/ HasNul(arg.aux)
      [] op \in {"kv_get", "kv_set", "kv_del", "persist"} -> FALSE
      [] OTHER -> HasNul(JsonToString(Command(op, arg)))

\* C15: an operation one of whose C-string arguments holds a nul byte returns
\* an error and makes no boundary call, so that no buffer is handed to it,
\* read or freed; an open whose path holds one returns an error and makes no
\* talon_open call.
C15_NulRejectedBeforeCall ==
    /\ \A t \in DOMAIN th :
           (th[t].pc # "idle" /\ NulCrosses(th[t].op, th[t].arg)) =>
               /\ th[t].pc = "done"
               /\ th[t].result = [kind |-> "err", msg |-> "NUL byte in string"]
               /\ th[t].calls = 0
               /\ th[t].ptr = 0
               /\ th[t].log = <<>>
               /\ \A a \in Addrs : ~(heap[a].live /\ heap[a].owner = t)
    /\ HasNul(talon.path) =>
           /\ talon.state = "failed"
           /\ talon.err = "NUL byte in string"
           /\ talon.calls = 0

\* A vector search whose index name is clean and whose metric name holds a
\* nul byte, returned with the error.
C15_Witness ==
    \E t \in DOMAIN th :
        /\ th[t].pc = "done"
        /\ th[t].op = "vector_search"
        /\ ~HasNul(th[t].arg.name)
        /\ HasNul(th[t].arg.aux)
        /\ th[t].calls = 0
        /\ th[t].result = [kind |-> "err", msg |-> "NUL byte in string"]

\* 1 plus the payload size of the cell at position pos (0-based) of b, by its
\* tag and, for the tags with a length, the u32 declared after it.
CellSize(b, pos) ==
    CASE b[pos + 1] = 0 -> 1
      [] b[pos + 1] \in {1, 2, 8} -> 9
      [] b[pos + 1] = 5 -> 2
      [] b[pos + 1] = 9 -> 17
      [] b[pos + 1] \in {3, 4, 6} -> 5 + U32FromLe(SubSeq(b, pos + 2, pos + 5))
      [] b[pos + 1] = 7 -> 5 + 4 * U32FromLe(SubSeq(b, pos + 2, pos + 5))
      [] OTHER -> -1

\* C16: where decode_value succeeds, the consumed count is 1 plus the payload
\* size of the decoded tag and pos + consumed is within the buffer; the
\* cursor of a row set that decoded ends within the buffer.
C16_ConsumedLength ==
    /\ (dec.op = "decode_value" /\ dec.r.kind = "ok") =>
           /\ dec.r.consumed = CellSize(data, dec.pos)
           /\ dec.r.val.tag = data[dec.pos + 1]
           /\ dec.pos + dec.r.consumed <= Len(data)
    /\ (dec.op = "decode_rows_bin" /\ dec.r.kind = "ok") =>
           (dec.r.pos >= 8 /\ dec.r.pos <= Len(data))

\* A Vector of one dimension or more decoded at a position past the start.
C16_Witness ==
    /\ dec.op = "decode_value"
    /\ dec.pos > 0
    /\ dec.r.kind = "ok"
    /\ dec.r.val.tag = 7
    /\ Len(dec.r.val.v) >= 1
    /\ dec.r.consumed = 5 + 4 * Len(dec.r.val.v)

============================================================================
